---- MODULE Spec2Model ----
(***************************************************************************)
(* Three-pass J-PAKE (RFC 8236, section 4) as implemented in               *)
(* src/three_pass.go, over the curve provider of src/unnamed/part_005 and  *)
(* the configuration of src/unnamed/part_003.                              *)
(*                                                                         *)
(* The group is the cyclic group of prime order N written additively: a    *)
(* point is the integer k in 0..N-1 standing for k*G, the identity is 0    *)
(* and the base point G is 1.  Scalars are the integers 0..N-1.  Byte      *)
(* strings are sequences of numbers in 0..255.  SHA-256 is a two-lane        *)
(* quadratic digest of DigestLen bytes that absorbs its input word by      *)
(* word; HMAC is built on it the way crypto/hmac builds it on SHA-256.     *)
(***************************************************************************)
EXTENDS Integers, Sequences, FiniteSets, TLC

\* ------------------------------------------------------------- bounds
\* How many user identifiers and passwords the parties and the network draw from.
NumUserIDs == 2
NumPasswords == 2
\* How many calls may be handed a value that no session returned.
MaxAltered == 1
\* The longest byte string handed to NewScalarFromSecret on its own.
MaxSecretLen == 3
\* The most byte strings handed to concat on its own.
MaxParts == 3

\* ------------------------------------------------------------- curve
\* Order of the prime-order group (Curve25519Params.N), scaled to a small prime.
N == 3

Scalars == 0 .. (N - 1)
Points == 0 .. (N - 1)

\* big.Int.Mod: the Euclidean modulus, never negative.
Mod(a, n) == ((a % n) + n) % n

\* Curve25519Curve.NewGeneratorPoint
NewGeneratorPoint == 1

\* Curve25519Curve.NewPoint: the identity point.
NewPoint == 0

\* Curve25519Point.Equal: 1 when the points are the same, 0 otherwise.
Equal(p, q) == IF p = q THEN 1 ELSE 0

\* Curve25519Curve.Infinity
Infinity(p) == Equal(p, NewPoint) = 1

\* Curve25519Point.Add / Subtract / ScalarBaseMult / ScalarMult
Add(r1, r2) == Mod(r1 + r2, N)
Subtract(r1, r2) == Mod(r1 - r2, N)
ScalarBaseMult(s) == Mod(NewGeneratorPoint * s, N)
ScalarMult(q, s) == Mod(q * s, N)

\* Curve25519Point.Bytes: the canonical encoding of a point, one byte here.
PointBytes(p) == <<p>>

\* Curve25519Scalar.Multiply
Multiply(t, u) == Mod(t * u, N)

\* Curve25519Scalar.Zero
Zero(s) == s = 0

\* ------------------------------------------------------------- bytes
\* big.Int.SetBytes: a byte string read as a big-endian integer.
RECURSIVE BytesToInt(_)
BytesToInt(b) ==
    IF Len(b) = 0 THEN 0
    ELSE 256 * BytesToInt(SubSeq(b, 1, Len(b) - 1)) + b[Len(b)]

\* binary.BigEndian.AppendUint64: the 8-byte big-endian encoding of a length.
Uint64Bytes(n) ==
    <<0, 0, 0, 0, (n \div 16777216) % 256, (n \div 65536) % 256, (n \div 256) % 256, n % 256>>

\* concat appending the parts with no length before them.
RECURSIVE concatWithoutLengths(_)
concatWithoutLengths(parts) ==
    IF Len(parts) = 0 THEN <<>>
    ELSE Head(parts) \o concatWithoutLengths(Tail(parts))

\* concat: every part preceded by its 64-bit big-endian length.
RECURSIVE concat(_)
concat(parts) ==
    IF Len(parts) = 0 THEN <<>>
    ELSE Uint64Bytes(Len(Head(parts))) \o Head(parts) \o concat(Tail(parts))

\* subtle.ConstantTimeCompare: 1 when the byte strings are equal, 0 otherwise.
ConstantTimeCompare(x, y) == IF x = y THEN 1 ELSE 0

\* ------------------------------------------------------------- hash and MAC
DigestLen == 4
ModulusHi == 32749
ModulusLo == 32719
SeedHi == 3
SeedLo == 11
WordSize == 8
BlockSize == 8
IPad == 54
OPad == 92

\* Byte i of b as the digest absorbs it: 0 past the end, b[i] + 1 otherwise.
At(b, i) == IF i <= Len(b) THEN b[i] + 1 ELSE 0

\* The word of b that starts at byte i: WordSize bytes, weighted by position.
Word(b, i, m) ==
    (At(b, i) * 3 + At(b, i + 1) * 17 + At(b, i + 2) * 101 + At(b, i + 3) * 257
     + At(b, i + 4) * 1009 + At(b, i + 5) * 2003 + At(b, i + 6) * 4001 + At(b, i + 7) * 8009) % m

\* The compression step of a lane: word w, read at offset i, folded into h.
Mix(h, w, i, m) == LET u == (h + w + 1) % m IN (u * u + h + i) % m

\* One lane of the digest: the words of b from byte i on folded in order
\* into h, and the length of b folded in last.
RECURSIVE Roll(_, _, _, _)
Roll(h, b, i, m) ==
    IF i > Len(b) THEN Mix(h, Len(b), 0, m)
    ELSE Roll(Mix(h, Word(b, i, m), i, m), b, i + WordSize, m)

\* sha256HashFn: the digest of a byte string, DigestLen bytes, big-endian.
sha256HashFn(in) ==
    LET hi == Roll(SeedHi, in, 1, ModulusHi)
        lo == Roll(SeedLo, in, 1, ModulusLo)
    IN  <<hi \div 256, hi % 256, lo \div 256, lo % 256>>

\* The key of an HMAC brought to the block size (hashed when longer, then
\* zero-padded) and masked with a pad byte.
PadKey(key, pad) ==
    LET k0 == IF Len(key) > BlockSize THEN sha256HashFn(key) ELSE key
    IN  [i \in 1 .. BlockSize |-> ((IF i <= Len(k0) THEN k0[i] ELSE 0) + pad) % 256]

\* hmacsha256: HMAC of input under key.
hmacsha256(input, key) ==
    sha256HashFn(PadKey(key, OPad) \o sha256HashFn(PadKey(key, IPad) \o input))

\* hmacsha256KDF, the default Config.macFn(key, msg): its first argument is
\* the HMAC's input and its second the HMAC's key.
hmacsha256KDF(input, key) == hmacsha256(input, key)

\* ------------------------------------------------------------- configuration
Str_JPAKE_CONFIRM == <<74, 80, 65, 75, 69, 95, 67, 79, 78, 70, 73, 82, 77>>
Str_SECRET == <<83, 69, 67, 82, 69, 84>>
Str_SESSION == <<83, 69, 83, 83, 73, 79, 78>>
Str_KC_1_U == <<75, 67, 95, 49, 95, 85>>

\* NewConfig: the default labels (hashFn and macFn are the defaults above).
NewConfig ==
    [sessionConfirmationBytes |-> Str_JPAKE_CONFIRM,
     secretGenerationBytes |-> Str_SECRET,
     sessionGenerationBytes |-> Str_SESSION]

\* Config.SetSessionConfirmationBytes
SetSessionConfirmationBytes(c, scb) == [c EXCEPT !.sessionConfirmationBytes = scb]

\* The labels of TestJpake3PassDifferentConfirmation1: "CONFIRM1", "CONFIRM2".
Str_CONFIRM1 == <<67, 79, 78, 70, 73, 82, 77, 49>>
Str_CONFIRM2 == <<67, 79, 78, 70, 73, 82, 77, 50>>

\* Config.generateSecret
generateSecret(c, pw) == sha256HashFn(hmacsha256KDF(pw, c.secretGenerationBytes))

\* Config.generateSessionKey
generateSessionKey(c, k) == hmacsha256KDF(k, c.sessionGenerationBytes)

\* Config.generateConfirmationMac, computed.
ComputeConfirmationMac(c, k, msg) ==
    hmacsha256KDF(hmacsha256KDF(k, c.sessionConfirmationBytes), msg)

\* NewScalarFromSecret reducing mod N, with nothing added.
NewScalarFromSecretModN(l, b) == Mod(BytesToInt(b), N)

\* Curve25519Curve.NewScalarFromSecret(l, b): (b mod (N - l)) + l.
NewScalarFromSecret(l, b) == Mod(BytesToInt(b), N - l) + l

\* Curve25519Curve.NewRandomScalar(l): what a successful draw may return.
NewRandomScalar(l) == l .. (N - 1)

\* ------------------------------------------------------------- identities
AllUserIDs == <<(<<111, 110, 101>>), (<<116, 119, 111>>), (<<116, 114, 105>>)>>
AllPasswords ==
    <<(<<112, 97, 115, 115, 119, 111, 114, 100>>),
      (<<112, 97, 115, 115, 119, 111, 114, 100, 50>>),
      (<<115, 101, 99, 114, 101, 116>>)>>
UserIDs == {AllUserIDs[i] : i \in 1 .. NumUserIDs}
Passwords == {AllPasswords[i] : i \in 1 .. NumPasswords}

\* ------------------------------------------------------------- errors
NoErr == [kind |-> "nil", expected |-> 0, was |-> 0]
\* fmt.Errorf("expected stage %d, was %d", ...)
ErrStage(expected, was) == [kind |-> "stage", expected |-> expected, was |-> was]
\* errors.New("could not verify the validity of the received message")
ErrInvalid == [kind |-> "invalid", expected |-> 0, was |-> 0]
\* errors.New("cannot confirm session")
ErrConfirm == [kind |-> "confirm", expected |-> 0, was |-> 0]
\* the error crypto/rand hands back through NewRandomScalar
ErrRand == [kind |-> "rand", expected |-> 0, was |-> 0]

\* A draw of NewRandomScalar(1) that failed.
RandFail == -1
\* What one call of NewRandomScalar(1) may come to.
Draws == NewRandomScalar(1) \cup {RandFail}

\* A point field nothing was stored in yet (a nil *Curve25519Point).
NilPoint == -2

\* A scalar field nothing was stored in (a nil scalar): the C of a ZKPMsg.
NilScalar == -3

\* The result of an operation: the session after it, the error and the
\* value returned (a set: empty when the operation returns nil).
Ret(s, err, out) == [jp |-> s, err |-> err, out |-> out]

\* ------------------------------------------------------------- construction
\* initWithCurve with x2s left as x2, the password's secret forgotten.
initWithCurveWithoutSecret(s) ==
    [s EXCEPT !.x1G = ScalarBaseMult(s.X1),
              !.x2G = ScalarBaseMult(s.X2),
              !.x2s = s.X2]

\* ThreePassJpake.initWithCurve
initWithCurve(s) ==
    [s EXCEPT !.x1G = ScalarBaseMult(s.X1),
              !.x2G = ScalarBaseMult(s.X2),
              !.x2s = Multiply(s.X2, s.S)]

\* The nil *ThreePassJpake a constructor returns with some of its errors.
NilJpake == [Stage |-> 0]

\* InitThreePassJpakeWithConfigAndCurve setting Stage to 1 for either role.
InitAlwaysInitiator(initiator, userID, pw, config, rand1, rand2) ==
    IF rand1 = RandFail \/ rand2 = RandFail THEN [jp |-> NilJpake, err |-> ErrRand]
    ELSE [jp |-> initWithCurve(
                     [x1G |-> NilPoint, x2G |-> NilPoint, userID |-> userID,
                      OtherX1G |-> NilPoint, OtherX2G |-> NilPoint, OtherUserID |-> <<>>,
                      x2s |-> 0, SessionKey |-> <<>>,
                      X1 |-> rand1, X2 |-> rand2,
                      S |-> NewScalarFromSecret(1, generateSecret(config, pw)),
                      Stage |-> 1,
                      config |-> config]),
          err |-> NoErr]

\* InitThreePassJpakeWithConfigAndCurve, rand1 and rand2 being the outcomes
\* of its two draws.  NewScalarFromSecret and initWithCurve do not fail over
\* this curve: SetBigInt is handed a value below N and ScalarBaseMult and
\* Multiply return a nil error.
InitThreePassJpakeWithConfigAndCurve(initiator, userID, pw, config, rand1, rand2) ==
    IF rand1 = RandFail THEN [jp |-> NilJpake, err |-> ErrRand]
    ELSE IF rand2 = RandFail THEN [jp |-> NilJpake, err |-> ErrRand]
    ELSE [jp |-> initWithCurve(
                     [x1G |-> NilPoint, x2G |-> NilPoint, userID |-> userID,
                      OtherX1G |-> NilPoint, OtherX2G |-> NilPoint, OtherUserID |-> <<>>,
                      x2s |-> 0, SessionKey |-> <<>>,
                      X1 |-> rand1, X2 |-> rand2,
                      S |-> NewScalarFromSecret(1, generateSecret(config, pw)),
                      Stage |-> IF initiator THEN 1 ELSE 2,
                      config |-> config]),
          err |-> NoErr]

\* errors.New("x1 cannot be at zero") and the four like it
ErrRestore(what) == [kind |-> what, expected |-> 0, was |-> 0]

\* RestoreThreePassJpakeWithCurveAndConfig copying every value but sessionKey.
RestoreWithoutSessionKey(stage, userID, otherUserID, sessionKey, x1, x2, s, otherX1G, otherX2G, config) ==
    IF Zero(x1) THEN [jp |-> NilJpake, err |-> ErrRestore("x1 cannot be at zero")]
    ELSE IF Zero(x2) THEN [jp |-> NilJpake, err |-> ErrRestore("x2 cannot be at zero")]
    ELSE IF Zero(s) THEN [jp |-> NilJpake, err |-> ErrRestore("s cannot be at zero")]
    ELSE IF stage >= 4 /\ Infinity(otherX1G) THEN [jp |-> NilJpake, err |-> ErrRestore("otherx1g cannot be at infinity")]
    ELSE IF stage >= 4 /\ Infinity(otherX2G) THEN [jp |-> NilJpake, err |-> ErrRestore("otherx2g cannot be at infinity")]
    ELSE [jp |-> initWithCurve(
                     [x1G |-> NilPoint, x2G |-> NilPoint, userID |-> userID,
                      OtherX1G |-> otherX1G, OtherX2G |-> otherX2G, OtherUserID |-> otherUserID,
                      x2s |-> 0, SessionKey |-> <<>>,
                      X1 |-> x1, X2 |-> x2, S |-> s, Stage |-> stage, config |-> config]),
          err |-> NoErr]

\* RestoreThreePassJpakeWithCurveAndConfig looking at the peer points from
\* stage 5 on only.
RestoreCheckingFromStage5(stage, userID, otherUserID, sessionKey, x1, x2, s, otherX1G, otherX2G, config) ==
    IF Zero(x1) THEN [jp |-> NilJpake, err |-> ErrRestore("x1 cannot be at zero")]
    ELSE IF Zero(x2) THEN [jp |-> NilJpake, err |-> ErrRestore("x2 cannot be at zero")]
    ELSE IF Zero(s) THEN [jp |-> NilJpake, err |-> ErrRestore("s cannot be at zero")]
    ELSE IF stage >= 5 /\ Infinity(otherX1G) THEN [jp |-> NilJpake, err |-> ErrRestore("otherx1g cannot be at infinity")]
    ELSE IF stage >= 5 /\ Infinity(otherX2G) THEN [jp |-> NilJpake, err |-> ErrRestore("otherx2g cannot be at infinity")]
    ELSE [jp |-> initWithCurve(
                     [x1G |-> NilPoint, x2G |-> NilPoint, userID |-> userID,
                      OtherX1G |-> otherX1G, OtherX2G |-> otherX2G, OtherUserID |-> otherUserID,
                      x2s |-> 0, SessionKey |-> sessionKey,
                      X1 |-> x1, X2 |-> x2, S |-> s, Stage |-> stage, config |-> config]),
          err |-> NoErr]

\* RestoreThreePassJpakeWithCurveAndConfig
RestoreThreePassJpakeWithCurveAndConfig(stage, userID, otherUserID, sessionKey, x1, x2, s, otherX1G, otherX2G, config) ==
    IF Zero(x1) THEN [jp |-> NilJpake, err |-> ErrRestore("x1 cannot be at zero")]
    ELSE IF Zero(x2) THEN [jp |-> NilJpake, err |-> ErrRestore("x2 cannot be at zero")]
    ELSE IF Zero(s) THEN [jp |-> NilJpake, err |-> ErrRestore("s cannot be at zero")]
    ELSE IF stage >= 4 /\ Infinity(otherX1G) THEN [jp |-> NilJpake, err |-> ErrRestore("otherx1g cannot be at infinity")]
    ELSE IF stage >= 4 /\ Infinity(otherX2G) THEN [jp |-> NilJpake, err |-> ErrRestore("otherx2g cannot be at infinity")]
    ELSE [jp |-> initWithCurve(
                     [x1G |-> NilPoint, x2G |-> NilPoint, userID |-> userID,
                      OtherX1G |-> otherX1G, OtherX2G |-> otherX2G, OtherUserID |-> otherUserID,
                      x2s |-> 0, SessionKey |-> sessionKey,
                      X1 |-> x1, X2 |-> x2, S |-> s, Stage |-> stage, config |-> config]),
          err |-> NoErr]

\* RestoreThreePassJpakeWithConfig
RestoreThreePassJpakeWithConfig(stage, userID, otherUserID, sessionKey, x1, x2, s, otherX1G, otherX2G, config) ==
    RestoreThreePassJpakeWithCurveAndConfig(stage, userID, otherUserID, sessionKey, x1, x2, s, otherX1G, otherX2G, config)

\* RestoreThreePassJpake: the session is given NewConfig().
RestoreThreePassJpake(stage, userID, otherUserID, sessionKey, x1, x2, s, otherX1G, otherX2G) ==
    RestoreThreePassJpakeWithConfig(stage, userID, otherUserID, sessionKey, x1, x2, s, otherX1G, otherX2G, NewConfig)

\* ------------------------------------------------------------- ZKP engine
\* The Fiat-Shamir challenge both computeZKP and checkZKP derive:
\* hashFn(concat(generator, T, Y, id)) mod N, computed.
ComputeChallenge(generator, t, y, id) ==
    Mod(BytesToInt(sha256HashFn(concat(<<PointBytes(generator), PointBytes(t), PointBytes(y), id>>))), N)

\* The challenges over the points and identifiers of the model, computed
\* once; Challenge looks them up and computes any other.
ChallengeTable ==
    [x \in Points \X Points \X Points \X (UserIDs \cup {<<>>}) |->
        ComputeChallenge(x[1], x[2], x[3], x[4])]

Challenge(generator, t, y, id) ==
    IF generator \in Points /\ t \in Points /\ y \in Points /\ id \in UserIDs \cup {<<>>}
    THEN ChallengeTable[<<generator, t, y, id>>]
    ELSE ComputeChallenge(generator, t, y, id)

\* computeZKP with r = v + c*x in place of v - c*x.
computeZKPAddingChallenge(s, x, generator, y, v) ==
    IF v = RandFail THEN [msg |-> [T |-> NewPoint, R |-> 0, C |-> NilScalar], err |-> ErrRand]
    ELSE LET t == ScalarMult(generator, v)
             c == Challenge(generator, t, y, s.userID)
             r == Mod(v + c * x, N)
         IN  [msg |-> [T |-> t, R |-> r, C |-> NilScalar], err |-> NoErr]

\* ThreePassJpake.computeZKP, v being the outcome of its NewRandomScalar(1).
computeZKP(s, x, generator, y, v) ==
    IF v = RandFail THEN [msg |-> [T |-> NewPoint, R |-> 0, C |-> NilScalar], err |-> ErrRand]
    ELSE LET t == ScalarMult(generator, v)
             c == Challenge(generator, t, y, s.userID)
             r == Mod(v - c * x, N)
         IN  [msg |-> [T |-> t, R |-> r, C |-> NilScalar], err |-> NoErr]

\* checkZKP without the refusal of a zero r.
checkZKPAcceptingZeroR(s, msgObj, generator, y) ==
    IF Infinity(generator) THEN FALSE
    ELSE IF Infinity(y) THEN FALSE
    ELSE IF Infinity(msgObj.T) THEN FALSE
    ELSE LET c == Challenge(generator, msgObj.T, y, s.OtherUserID)
         IN  IF c = 0 THEN FALSE
             ELSE LET vcheck == ScalarMult(generator, msgObj.R)
                      tmp2 == ScalarMult(y, c)
                  IN  Equal(Add(vcheck, tmp2), msgObj.T) = 1

\* checkZKP without the refusal of a zero challenge.
checkZKPAcceptingZeroChallenge(s, msgObj, generator, y) ==
    IF Infinity(generator) THEN FALSE
    ELSE IF Infinity(y) THEN FALSE
    ELSE IF Infinity(msgObj.T) THEN FALSE
    ELSE IF Zero(msgObj.R) THEN FALSE
    ELSE LET c == Challenge(generator, msgObj.T, y, s.OtherUserID)
             vcheck == ScalarMult(generator, msgObj.R)
             tmp2 == ScalarMult(y, c)
         IN  Equal(Add(vcheck, tmp2), msgObj.T) = 1

\* checkZKP taking the challenge from the proof's C when that field is set.
checkZKPTrustingC(s, msgObj, generator, y) ==
    IF Infinity(generator) THEN FALSE
    ELSE IF Infinity(y) THEN FALSE
    ELSE IF Infinity(msgObj.T) THEN FALSE
    ELSE IF Zero(msgObj.R) THEN FALSE
    ELSE LET c == IF msgObj.C # NilScalar THEN msgObj.C
                  ELSE Challenge(generator, msgObj.T, y, s.OtherUserID)
         IN  IF c = 0 THEN FALSE
             ELSE LET vcheck == ScalarMult(generator, msgObj.R)
                      tmp2 == ScalarMult(y, c)
                  IN  Equal(Add(vcheck, tmp2), msgObj.T) = 1

\* checkZKP deriving the challenge without the sender's identifier.
checkZKPIgnoringSender(s, msgObj, generator, y) ==
    IF Infinity(generator) THEN FALSE
    ELSE IF Infinity(y) THEN FALSE
    ELSE IF Infinity(msgObj.T) THEN FALSE
    ELSE IF Zero(msgObj.R) THEN FALSE
    ELSE LET c == Challenge(generator, msgObj.T, y, <<>>)
         IN  IF c = 0 THEN FALSE
             ELSE LET vcheck == ScalarMult(generator, msgObj.R)
                      tmp2 == ScalarMult(y, c)
                  IN  Equal(Add(vcheck, tmp2), msgObj.T) = 1

\* ThreePassJpake.checkZKP
checkZKP(s, msgObj, generator, y) ==
    IF Infinity(generator) THEN FALSE
    ELSE IF Infinity(y) THEN FALSE
    ELSE IF Infinity(msgObj.T) THEN FALSE
    ELSE IF Zero(msgObj.R) THEN FALSE
    ELSE LET c == Challenge(generator, msgObj.T, y, s.OtherUserID)
         IN  IF c = 0 THEN FALSE
             ELSE LET vcheck == ScalarMult(generator, msgObj.R)
                      tmp2 == ScalarMult(y, c)
                  IN  Equal(Add(vcheck, tmp2), msgObj.T) = 1

\* ------------------------------------------------------------- key derivation
\* The session keys of the model's points under the default labels.
SessionKeys == {generateSessionKey(NewConfig, PointBytes(k)) : k \in Points}

\* computeSharedKey without the subtraction of OtherX2G * x2s.
computeSharedKeyWithoutSubtract(s, p) ==
    [s EXCEPT !.SessionKey = generateSessionKey(s.config, PointBytes(ScalarMult(p, s.X2)))]

\* computeSharedKey clearing x2s once the key is derived.
computeSharedKeyClearingSecret(s, p) ==
    LET otherx2gX2s == ScalarMult(s.OtherX2G, s.x2s)
        k == ScalarMult(Subtract(p, otherx2gX2s), s.X2)
    IN  [s EXCEPT !.SessionKey = generateSessionKey(s.config, PointBytes(k)), !.x2s = 0]

\* ThreePassJpake.computeSharedKey: the session with SessionKey derived from p.
computeSharedKey(s, p) ==
    LET otherx2gX2s == ScalarMult(s.OtherX2G, s.x2s)
        k == ScalarMult(Subtract(p, otherx2gX2s), s.X2)
    IN  [s EXCEPT !.SessionKey = generateSessionKey(s.config, PointBytes(k))]

\* The bytes a confirmation tag is computed over: the label, two
\* identifiers and two pairs of points, in the order given.
ConfirmBytes(id1, id2, p1, p2, p3, p4) ==
    concat(<<Str_KC_1_U, id1, id2, PointBytes(p1), PointBytes(p2), PointBytes(p3), PointBytes(p4)>>)

\* The confirmation tags over the keys, identifiers and points of the
\* model under the default labels, computed once; generateConfirmationMac
\* looks them up and computes any other.
ConfirmationTable ==
    [x \in SessionKeys \X UserIDs \X UserIDs \X Points \X Points \X Points \X Points |->
        ComputeConfirmationMac(NewConfig, x[1], ConfirmBytes(x[2], x[3], x[4], x[5], x[6], x[7]))]

\* generateConfirmationMac keyed with the default label whatever the
\* configuration says.
generateConfirmationMacDefaultLabel(c, k, id1, id2, p1, p2, p3, p4) ==
    ComputeConfirmationMac(NewConfig, k, ConfirmBytes(id1, id2, p1, p2, p3, p4))

\* Config.generateConfirmationMac over ConfirmBytes(id1, id2, p1, p2, p3, p4).
generateConfirmationMac(c, k, id1, id2, p1, p2, p3, p4) ==
    IF /\ c = NewConfig /\ k \in SessionKeys /\ id1 \in UserIDs /\ id2 \in UserIDs
       /\ p1 \in Points /\ p2 \in Points /\ p3 \in Points /\ p4 \in Points
    THEN ConfirmationTable[<<k, id1, id2, p1, p2, p3, p4>>]
    ELSE ComputeConfirmationMac(c, k, ConfirmBytes(id1, id2, p1, p2, p3, p4))

\* The tag a session sends computed with the peer's identifier and points first.
ConfirmTagPeerFirst(s) ==
    generateConfirmationMac(s.config, s.SessionKey, s.OtherUserID, s.userID,
                            s.OtherX1G, s.OtherX2G, s.x1G, s.x2G)

\* The tag a session sends: MAC(k', "KC_1_U" || own id || peer id || own
\* points || peer points).
ConfirmTag(s) ==
    generateConfirmationMac(s.config, s.SessionKey, s.userID, s.OtherUserID,
                            s.x1G, s.x2G, s.OtherX1G, s.OtherX2G)

\* The expected tag computed in the order of the tag the session sends.
ExpectedTagOwnFirst(s) ==
    generateConfirmationMac(s.config, s.SessionKey, s.userID, s.OtherUserID,
                            s.x1G, s.x2G, s.OtherX1G, s.OtherX2G)

\* The tag a session expects: the peer's identifier and points first.
ExpectedTag(s) ==
    generateConfirmationMac(s.config, s.SessionKey, s.OtherUserID, s.userID,
                            s.OtherX1G, s.OtherX2G, s.x1G, s.x2G)

\* ------------------------------------------------------------- operations
\* Pass1Message moving to stage 2 instead of stage 3.
Pass1MessageToStage2(s, rnd) ==
    IF s.Stage # 1 THEN [jp |-> s, err |-> ErrStage(1, s.Stage), out |-> {}]
    ELSE [jp |-> [s EXCEPT !.Stage = 2], err |-> NoErr, out |-> {}]

\* Pass1Message sending the point of x2s, which the password enters, as X2G.
Pass1MessageSendingX2sG(s, rnd) ==
    IF s.Stage # 1 THEN Ret(s, ErrStage(1, s.Stage), {})
    ELSE LET x1ZKP == computeZKP(s, s.X1, NewGeneratorPoint, s.x1G, rnd[1])
         IN  IF x1ZKP.err # NoErr THEN Ret(s, x1ZKP.err, {})
             ELSE LET x2ZKP == computeZKP(s, s.X2, NewGeneratorPoint, s.x2G, rnd[2])
                  IN  IF x2ZKP.err # NoErr THEN Ret(s, x2ZKP.err, {})
                      ELSE Ret([s EXCEPT !.Stage = 3], NoErr,
                               {[UserID |-> s.userID, X1G |-> s.x1G,
                                 X2G |-> ScalarBaseMult(s.x2s),
                                 X1ZKP |-> x1ZKP.msg, X2ZKP |-> x2ZKP.msg]})

\* ThreePassJpake.Pass1Message, rnd being the outcomes of its two draws.
Pass1Message(s, rnd) ==
    IF s.Stage # 1 THEN Ret(s, ErrStage(1, s.Stage), {})
    ELSE LET x1ZKP == computeZKP(s, s.X1, NewGeneratorPoint, s.x1G, rnd[1])
         IN  IF x1ZKP.err # NoErr THEN Ret(s, x1ZKP.err, {})
             ELSE LET x2ZKP == computeZKP(s, s.X2, NewGeneratorPoint, s.x2G, rnd[2])
                  IN  IF x2ZKP.err # NoErr THEN Ret(s, x2ZKP.err, {})
                      ELSE Ret([s EXCEPT !.Stage = 3], NoErr,
                               {[UserID |-> s.userID, X1G |-> s.x1G, X2G |-> s.x2G,
                                 X1ZKP |-> x1ZKP.msg, X2ZKP |-> x2ZKP.msg]})

\* GetPass2Message with an error of its own for a message carrying the own userID.
GetPass2MessageNamingOwnUserID(s, msg, rnd) ==
    IF s.Stage # 2 THEN Ret(s, ErrStage(2, s.Stage), {})
    ELSE IF ConstantTimeCompare(msg.UserID, s.userID) = 1
         THEN Ret(s, [kind |-> "own user id", expected |-> 0, was |-> 0], {})
    ELSE
      LET s1 == [s EXCEPT !.OtherUserID = msg.UserID]
          x1Proof == checkZKP(s1, msg.X1ZKP, NewGeneratorPoint, msg.X1G)
          x2Proof == checkZKP(s1, msg.X2ZKP, NewGeneratorPoint, msg.X2G)
      IN
      IF ~(x1Proof /\ x2Proof) THEN Ret(s1, ErrInvalid, {})
      ELSE
        LET s2 == [s1 EXCEPT !.OtherX1G = msg.X1G, !.OtherX2G = msg.X2G, !.Stage = 4]
            x3ZKP == computeZKP(s2, s2.X1, NewGeneratorPoint, s2.x1G, rnd[1])
            x4ZKP == computeZKP(s2, s2.X2, NewGeneratorPoint, s2.x2G, rnd[2])
            generator == Add(Add(s2.x1G, msg.X1G), msg.X2G)
            b == ScalarMult(generator, s2.x2s)
            xsZKP == computeZKP(s2, s2.x2s, generator, b, rnd[3])
        IN
        IF x3ZKP.err # NoErr THEN Ret(s2, x3ZKP.err, {})
        ELSE IF x4ZKP.err # NoErr THEN Ret(s2, x4ZKP.err, {})
        ELSE IF Infinity(generator) THEN Ret(s2, ErrInvalid, {})
        ELSE IF xsZKP.err # NoErr THEN Ret(s2, xsZKP.err, {})
        ELSE Ret(s2, NoErr,
                 {[UserID |-> s2.userID, X3G |-> s2.x1G, X4G |-> s2.x2G, B |-> b,
                   X3ZKP |-> x3ZKP.msg, X4ZKP |-> x4ZKP.msg, XsZKP |-> xsZKP.msg]})

\* GetPass2Message with the composite generator x1G + X1G, X2G left out.
GetPass2MessageGeneratorWithoutX2G(s, msg, rnd) ==
    IF s.Stage # 2 THEN Ret(s, ErrStage(2, s.Stage), {})
    ELSE IF ConstantTimeCompare(msg.UserID, s.userID) = 1 THEN Ret(s, ErrInvalid, {})
    ELSE
      LET s1 == [s EXCEPT !.OtherUserID = msg.UserID]
          x1Proof == checkZKP(s1, msg.X1ZKP, NewGeneratorPoint, msg.X1G)
          x2Proof == checkZKP(s1, msg.X2ZKP, NewGeneratorPoint, msg.X2G)
      IN
      IF ~(x1Proof /\ x2Proof) THEN Ret(s1, ErrInvalid, {})
      ELSE
        LET s2 == [s1 EXCEPT !.OtherX1G = msg.X1G, !.OtherX2G = msg.X2G, !.Stage = 4]
            x3ZKP == computeZKP(s2, s2.X1, NewGeneratorPoint, s2.x1G, rnd[1])
            x4ZKP == computeZKP(s2, s2.X2, NewGeneratorPoint, s2.x2G, rnd[2])
            generator == Add(s2.x1G, msg.X1G)
            b == ScalarMult(generator, s2.x2s)
            xsZKP == computeZKP(s2, s2.x2s, generator, b, rnd[3])
        IN
        IF x3ZKP.err # NoErr THEN Ret(s2, x3ZKP.err, {})
        ELSE IF x4ZKP.err # NoErr THEN Ret(s2, x4ZKP.err, {})
        ELSE IF Infinity(generator) THEN Ret(s2, ErrInvalid, {})
        ELSE IF xsZKP.err # NoErr THEN Ret(s2, xsZKP.err, {})
        ELSE Ret(s2, NoErr,
                 {[UserID |-> s2.userID, X3G |-> s2.x1G, X4G |-> s2.x2G, B |-> b,
                   X3ZKP |-> x3ZKP.msg, X4ZKP |-> x4ZKP.msg, XsZKP |-> xsZKP.msg]})

\* GetPass2Message storing the peer's points and Stage = 4 before the proofs are checked.
GetPass2MessageStoringUnchecked(s, msg, rnd) ==
    IF s.Stage # 2 THEN Ret(s, ErrStage(2, s.Stage), {})
    ELSE IF ConstantTimeCompare(msg.UserID, s.userID) = 1 THEN Ret(s, ErrInvalid, {})
    ELSE
      LET s1 == [s EXCEPT !.OtherUserID = msg.UserID]
          x1Proof == checkZKP(s1, msg.X1ZKP, NewGeneratorPoint, msg.X1G)
          x2Proof == checkZKP(s1, msg.X2ZKP, NewGeneratorPoint, msg.X2G)
      IN
      IF ~(x1Proof /\ x2Proof)
      THEN Ret([s1 EXCEPT !.OtherX1G = msg.X1G, !.OtherX2G = msg.X2G, !.Stage = 4], ErrInvalid, {})
      ELSE
        LET s2 == [s1 EXCEPT !.OtherX1G = msg.X1G, !.OtherX2G = msg.X2G, !.Stage = 4]
            x3ZKP == computeZKP(s2, s2.X1, NewGeneratorPoint, s2.x1G, rnd[1])
            x4ZKP == computeZKP(s2, s2.X2, NewGeneratorPoint, s2.x2G, rnd[2])
            generator == Add(Add(s2.x1G, msg.X1G), msg.X2G)
            b == ScalarMult(generator, s2.x2s)
            xsZKP == computeZKP(s2, s2.x2s, generator, b, rnd[3])
        IN
        IF x3ZKP.err # NoErr THEN Ret(s2, x3ZKP.err, {})
        ELSE IF x4ZKP.err # NoErr THEN Ret(s2, x4ZKP.err, {})
        ELSE IF Infinity(generator) THEN Ret(s2, ErrInvalid, {})
        ELSE IF xsZKP.err # NoErr THEN Ret(s2, xsZKP.err, {})
        ELSE Ret(s2, NoErr,
                 {[UserID |-> s2.userID, X3G |-> s2.x1G, X4G |-> s2.x2G, B |-> b,
                   X3ZKP |-> x3ZKP.msg, X4ZKP |-> x4ZKP.msg, XsZKP |-> xsZKP.msg]})

\* GetPass2Message writing OtherUserID before it compares it with the own userID.
GetPass2MessageComparingAfterWrite(s, msg, rnd) ==
    IF s.Stage # 2 THEN Ret(s, ErrStage(2, s.Stage), {})
    ELSE IF ConstantTimeCompare(msg.UserID, s.userID) = 1
         THEN Ret([s EXCEPT !.OtherUserID = msg.UserID], ErrInvalid, {})
    ELSE
      LET s1 == [s EXCEPT !.OtherUserID = msg.UserID]
          x1Proof == checkZKP(s1, msg.X1ZKP, NewGeneratorPoint, msg.X1G)
          x2Proof == checkZKP(s1, msg.X2ZKP, NewGeneratorPoint, msg.X2G)
      IN
      IF ~(x1Proof /\ x2Proof) THEN Ret(s1, ErrInvalid, {})
      ELSE
        LET s2 == [s1 EXCEPT !.OtherX1G = msg.X1G, !.OtherX2G = msg.X2G, !.Stage = 4]
            x3ZKP == computeZKP(s2, s2.X1, NewGeneratorPoint, s2.x1G, rnd[1])
            x4ZKP == computeZKP(s2, s2.X2, NewGeneratorPoint, s2.x2G, rnd[2])
            generator == Add(Add(s2.x1G, msg.X1G), msg.X2G)
            b == ScalarMult(generator, s2.x2s)
            xsZKP == computeZKP(s2, s2.x2s, generator, b, rnd[3])
        IN
        IF x3ZKP.err # NoErr THEN Ret(s2, x3ZKP.err, {})
        ELSE IF x4ZKP.err # NoErr THEN Ret(s2, x4ZKP.err, {})
        ELSE IF Infinity(generator) THEN Ret(s2, ErrInvalid, {})
        ELSE IF xsZKP.err # NoErr THEN Ret(s2, xsZKP.err, {})
        ELSE Ret(s2, NoErr,
                 {[UserID |-> s2.userID, X3G |-> s2.x1G, X4G |-> s2.x2G, B |-> b,
                   X3ZKP |-> x3ZKP.msg, X4ZKP |-> x4ZKP.msg, XsZKP |-> xsZKP.msg]})

\* GetPass2Message without the comparison of its composite generator with
\* the identity.
GetPass2MessageWithoutGeneratorCheck(s, msg, rnd) ==
    IF s.Stage # 2 THEN Ret(s, ErrStage(2, s.Stage), {})
    ELSE IF ConstantTimeCompare(msg.UserID, s.userID) = 1 THEN Ret(s, ErrInvalid, {})
    ELSE
      LET s1 == [s EXCEPT !.OtherUserID = msg.UserID]
          x1Proof == checkZKP(s1, msg.X1ZKP, NewGeneratorPoint, msg.X1G)
          x2Proof == checkZKP(s1, msg.X2ZKP, NewGeneratorPoint, msg.X2G)
      IN
      IF ~(x1Proof /\ x2Proof) THEN Ret(s1, ErrInvalid, {})
      ELSE
        LET s2 == [s1 EXCEPT !.OtherX1G = msg.X1G, !.OtherX2G = msg.X2G, !.Stage = 4]
            x3ZKP == computeZKP(s2, s2.X1, NewGeneratorPoint, s2.x1G, rnd[1])
            x4ZKP == computeZKP(s2, s2.X2, NewGeneratorPoint, s2.x2G, rnd[2])
            generator == Add(Add(s2.x1G, msg.X1G), msg.X2G)
            b == ScalarMult(generator, s2.x2s)
            xsZKP == computeZKP(s2, s2.x2s, generator, b, rnd[3])
        IN
        IF x3ZKP.err # NoErr THEN Ret(s2, x3ZKP.err, {})
        ELSE IF x4ZKP.err # NoErr THEN Ret(s2, x4ZKP.err, {})
        ELSE IF xsZKP.err # NoErr THEN Ret(s2, xsZKP.err, {})
        ELSE Ret(s2, NoErr,
                 {[UserID |-> s2.userID, X3G |-> s2.x1G, X4G |-> s2.x2G, B |-> b,
                   X3ZKP |-> x3ZKP.msg, X4ZKP |-> x4ZKP.msg, XsZKP |-> xsZKP.msg]})

\* ThreePassJpake.GetPass2Message, rnd being the outcomes of its three draws.
GetPass2Message(s, msg, rnd) ==
    IF s.Stage # 2 THEN Ret(s, ErrStage(2, s.Stage), {})
    ELSE IF ConstantTimeCompare(msg.UserID, s.userID) = 1 THEN Ret(s, ErrInvalid, {})
    ELSE
      LET s1 == [s EXCEPT !.OtherUserID = msg.UserID]
          x1Proof == checkZKP(s1, msg.X1ZKP, NewGeneratorPoint, msg.X1G)
          x2Proof == checkZKP(s1, msg.X2ZKP, NewGeneratorPoint, msg.X2G)
      IN
      IF ~(x1Proof /\ x2Proof) THEN Ret(s1, ErrInvalid, {})
      ELSE
        LET s2 == [s1 EXCEPT !.OtherX1G = msg.X1G, !.OtherX2G = msg.X2G, !.Stage = 4]
            x3ZKP == computeZKP(s2, s2.X1, NewGeneratorPoint, s2.x1G, rnd[1])
            x4ZKP == computeZKP(s2, s2.X2, NewGeneratorPoint, s2.x2G, rnd[2])
            generator == Add(Add(s2.x1G, msg.X1G), msg.X2G)
            b == ScalarMult(generator, s2.x2s)
            xsZKP == computeZKP(s2, s2.x2s, generator, b, rnd[3])
        IN
        IF x3ZKP.err # NoErr THEN Ret(s2, x3ZKP.err, {})
        ELSE IF x4ZKP.err # NoErr THEN Ret(s2, x4ZKP.err, {})
        ELSE IF Infinity(generator) THEN Ret(s2, ErrInvalid, {})
        ELSE IF xsZKP.err # NoErr THEN Ret(s2, xsZKP.err, {})
        ELSE Ret(s2, NoErr,
                 {[UserID |-> s2.userID, X3G |-> s2.x1G, X4G |-> s2.x2G, B |-> b,
                   X3ZKP |-> x3ZKP.msg, X4ZKP |-> x4ZKP.msg, XsZKP |-> xsZKP.msg]})

\* GetPass3Message without the comparison of msg.UserID with the own userID.
GetPass3MessageWithoutSelfCheck(s, msg, rnd) ==
    IF s.Stage # 3 THEN Ret(s, ErrStage(3, s.Stage), {})
    ELSE
      LET s1 == [s EXCEPT !.OtherUserID = msg.UserID]
          zkpGenerator == Add(Add(s1.x1G, s1.x2G), msg.X3G)
          x3Proof == checkZKP(s1, msg.X3ZKP, NewGeneratorPoint, msg.X3G)
          x4Proof == checkZKP(s1, msg.X4ZKP, NewGeneratorPoint, msg.X4G)
          xsProof == checkZKP(s1, msg.XsZKP, zkpGenerator, msg.B)
          generator == Add(Add(s1.x1G, msg.X3G), msg.X4G)
          a == ScalarMult(generator, s1.x2s)
          xsZKP == computeZKP(s1, s1.x2s, generator, a, rnd[1])
          s2 == [s1 EXCEPT !.OtherX1G = msg.X3G, !.OtherX2G = msg.X4G, !.Stage = 5]
      IN
      IF ~(x3Proof /\ x4Proof /\ xsProof) THEN Ret(s1, ErrInvalid, {})
      ELSE IF Infinity(generator) THEN Ret(s1, ErrInvalid, {})
      ELSE IF xsZKP.err # NoErr THEN Ret(s1, xsZKP.err, {})
      ELSE Ret(computeSharedKey(s2, msg.B), NoErr, {[A |-> a, XsZKP |-> xsZKP.msg]})

\* GetPass3Message moving to stage 5 without deriving the SessionKey.
GetPass3MessageWithoutSharedKey(s, msg, rnd) ==
    IF s.Stage # 3 THEN Ret(s, ErrStage(3, s.Stage), {})
    ELSE IF ConstantTimeCompare(msg.UserID, s.userID) = 1 THEN Ret(s, ErrInvalid, {})
    ELSE
      LET s1 == [s EXCEPT !.OtherUserID = msg.UserID]
          zkpGenerator == Add(Add(s1.x1G, s1.x2G), msg.X3G)
          x3Proof == checkZKP(s1, msg.X3ZKP, NewGeneratorPoint, msg.X3G)
          x4Proof == checkZKP(s1, msg.X4ZKP, NewGeneratorPoint, msg.X4G)
          xsProof == checkZKP(s1, msg.XsZKP, zkpGenerator, msg.B)
          generator == Add(Add(s1.x1G, msg.X3G), msg.X4G)
          a == ScalarMult(generator, s1.x2s)
          xsZKP == computeZKP(s1, s1.x2s, generator, a, rnd[1])
          s2 == [s1 EXCEPT !.OtherX1G = msg.X3G, !.OtherX2G = msg.X4G, !.Stage = 5]
      IN
      IF ~(x3Proof /\ x4Proof /\ xsProof) THEN Ret(s1, ErrInvalid, {})
      ELSE IF Infinity(generator) THEN Ret(s1, ErrInvalid, {})
      ELSE IF xsZKP.err # NoErr THEN Ret(s1, xsZKP.err, {})
      ELSE Ret(s2, NoErr, {[A |-> a, XsZKP |-> xsZKP.msg]})

\* ThreePassJpake.GetPass3Message, rnd being the outcome of its one draw.
GetPass3Message(s, msg, rnd) ==
    IF s.Stage # 3 THEN Ret(s, ErrStage(3, s.Stage), {})
    ELSE IF ConstantTimeCompare(msg.UserID, s.userID) = 1 THEN Ret(s, ErrInvalid, {})
    ELSE
      LET s1 == [s EXCEPT !.OtherUserID = msg.UserID]
          zkpGenerator == Add(Add(s1.x1G, s1.x2G), msg.X3G)
          x3Proof == checkZKP(s1, msg.X3ZKP, NewGeneratorPoint, msg.X3G)
          x4Proof == checkZKP(s1, msg.X4ZKP, NewGeneratorPoint, msg.X4G)
          xsProof == checkZKP(s1, msg.XsZKP, zkpGenerator, msg.B)
          generator == Add(Add(s1.x1G, msg.X3G), msg.X4G)
          a == ScalarMult(generator, s1.x2s)
          xsZKP == computeZKP(s1, s1.x2s, generator, a, rnd[1])
          s2 == [s1 EXCEPT !.OtherX1G = msg.X3G, !.OtherX2G = msg.X4G, !.Stage = 5]
      IN
      IF ~(x3Proof /\ x4Proof /\ xsProof) THEN Ret(s1, ErrInvalid, {})
      ELSE IF Infinity(generator) THEN Ret(s1, ErrInvalid, {})
      ELSE IF xsZKP.err # NoErr THEN Ret(s1, xsZKP.err, {})
      ELSE Ret(computeSharedKey(s2, msg.B), NoErr, {[A |-> a, XsZKP |-> xsZKP.msg]})

\* ProcessPass3Message verifying over x1G + OtherX1G, x2G left out.
ProcessPass3MessageOverX1GOnly(s, msg) ==
    IF s.Stage # 4 THEN Ret(s, ErrStage(4, s.Stage), {})
    ELSE
      LET zkpGenerator == Add(s.x1G, s.OtherX1G)
          xsProof == checkZKP(s, msg.XsZKP, zkpGenerator, msg.A)
          s1 == [computeSharedKey(s, msg.A) EXCEPT !.Stage = 6]
      IN
      IF ~xsProof THEN Ret(s, ErrInvalid, {})
      ELSE Ret(s1, NoErr, {ConfirmTag(s1)})

\* ProcessPass3Message returning its tag without moving to stage 6.
ProcessPass3MessageStayingAtStage4(s, msg) ==
    IF s.Stage # 4 THEN Ret(s, ErrStage(4, s.Stage), {})
    ELSE
      LET zkpGenerator == Add(Add(s.x1G, s.x2G), s.OtherX1G)
          xsProof == checkZKP(s, msg.XsZKP, zkpGenerator, msg.A)
          s1 == computeSharedKey(s, msg.A)
      IN
      IF ~xsProof THEN Ret(s, ErrInvalid, {})
      ELSE Ret(s1, NoErr, {ConfirmTag(s1)})

\* ThreePassJpake.ProcessPass3Message
ProcessPass3Message(s, msg) ==
    IF s.Stage # 4 THEN Ret(s, ErrStage(4, s.Stage), {})
    ELSE
      LET zkpGenerator == Add(Add(s.x1G, s.x2G), s.OtherX1G)
          xsProof == checkZKP(s, msg.XsZKP, zkpGenerator, msg.A)
          s1 == [computeSharedKey(s, msg.A) EXCEPT !.Stage = 6]
      IN
      IF ~xsProof THEN Ret(s, ErrInvalid, {})
      ELSE Ret(s1, NoErr, {ConfirmTag(s1)})

\* ProcessSessionConfirmation1 deriving a fresh SessionKey from the confirmed one.
ProcessSessionConfirmation1Rekeying(s, confirm1) ==
    IF s.Stage # 5 THEN Ret(s, ErrStage(5, s.Stage), {})
    ELSE IF ConstantTimeCompare(confirm1, ExpectedTag(s)) # 1
         THEN Ret(s, ErrConfirm, {})
    ELSE LET s1 == [s EXCEPT !.Stage = 7]
         IN  Ret([s1 EXCEPT !.SessionKey = generateSessionKey(s.config, s.SessionKey)],
                 NoErr, {ConfirmTag(s1)})

\* ProcessSessionConfirmation1 moving to stage 8 instead of stage 7.
ProcessSessionConfirmation1ToStage8(s, confirm1) ==
    IF s.Stage # 5 THEN Ret(s, ErrStage(5, s.Stage), {})
    ELSE IF ConstantTimeCompare(confirm1, ExpectedTag(s)) # 1
         THEN Ret(s, ErrConfirm, {})
    ELSE LET s1 == [s EXCEPT !.Stage = 8]
         IN  Ret(s1, NoErr, {ConfirmTag(s1)})

\* ThreePassJpake.ProcessSessionConfirmation1
ProcessSessionConfirmation1(s, confirm1) ==
    IF s.Stage # 5 THEN Ret(s, ErrStage(5, s.Stage), {})
    ELSE IF ConstantTimeCompare(confirm1, ExpectedTag(s)) # 1
         THEN Ret(s, ErrConfirm, {})
    ELSE LET s1 == [s EXCEPT !.Stage = 7]
         IN  Ret(s1, NoErr, {ConfirmTag(s1)})

\* ProcessSessionConfirmation2 without its stage guard.
ProcessSessionConfirmation2Unguarded(s, confirm2) ==
    IF ConstantTimeCompare(confirm2, ExpectedTag(s)) # 1
    THEN Ret(s, ErrConfirm, {})
    ELSE Ret([s EXCEPT !.Stage = 8], NoErr, {})

\* ThreePassJpake.ProcessSessionConfirmation2
ProcessSessionConfirmation2(s, confirm2) ==
    IF s.Stage # 6 THEN Ret(s, ErrStage(6, s.Stage), {})
    ELSE IF ConstantTimeCompare(confirm2, ExpectedTag(s)) # 1
         THEN Ret(s, ErrConfirm, {})
    ELSE Ret([s EXCEPT !.Stage = 8], NoErr, {})

\* ------------------------------------------------------------- the run
\* Two sessions, "A" built as initiator and "B" as responder, driven by a
\* caller who may hand any operation of either session the values the
\* other session returned, altered or not, at any time and in any order.
Party == {"A", "B"}

VARIABLES
    jp,        \* jp[p]: the ThreePassJpake session of party p
    pw,        \* pw[p]: the password session p was built from
    wire,      \* the values returned so far: Msg1, Msg2, Msg3, the two tags
    altered,   \* how many calls were handed a value no session returned
    honest,    \* how many calls of the honest run were made; negative once off it
    rejected,  \* rejected[p]: the kinds of rejection session p has returned
    fn         \* a call of a constructor or of the proof engine on its own

vars == <<jp, pw, wire, altered, honest, rejected, fn>>

\* A well-typed Msg1, Msg2, Msg3 and tag that no session produced.
JunkMsg1 ==
    [UserID |-> AllUserIDs[1], X1G |-> 1, X2G |-> 1,
     X1ZKP |-> [T |-> 1, R |-> 1, C |-> NilScalar], X2ZKP |-> [T |-> 1, R |-> 1, C |-> NilScalar]]
JunkMsg2 ==
    [UserID |-> AllUserIDs[1], X3G |-> 1, X4G |-> 1, B |-> 1,
     X3ZKP |-> [T |-> 1, R |-> 1, C |-> NilScalar], X4ZKP |-> [T |-> 1, R |-> 1, C |-> NilScalar],
     XsZKP |-> [T |-> 1, R |-> 1, C |-> NilScalar]]
JunkMsg3 == [A |-> 1, XsZKP |-> [T |-> 1, R |-> 1, C |-> NilScalar]]
JunkTag == <<97, 110>>

\* A proof with its T or its R replaced by any value.
TamperZKP(z) == {[z EXCEPT !.T = v] : v \in Points} \cup {[z EXCEPT !.R = v] : v \in Scalars}

\* A message with its UserID replaced by any identifier and at most one of
\* its other fields replaced by any value of the field's type.
Tamper1(m) ==
    UNION {
      {[m EXCEPT !.UserID = id]}
      \cup {[m EXCEPT !.UserID = id, !.X1G = v] : v \in Points}
      \cup {[m EXCEPT !.UserID = id, !.X2G = v] : v \in Points}
      \cup {[m EXCEPT !.UserID = id, !.X1ZKP = v] : v \in TamperZKP(m.X1ZKP)}
      \cup {[m EXCEPT !.UserID = id, !.X2ZKP = v] : v \in TamperZKP(m.X2ZKP)}
      : id \in UserIDs }

Tamper2(m) ==
    UNION {
      {[m EXCEPT !.UserID = id]}
      \cup {[m EXCEPT !.UserID = id, !.X3G = v] : v \in Points}
      \cup {[m EXCEPT !.UserID = id, !.X4G = v] : v \in Points}
      \cup {[m EXCEPT !.UserID = id, !.B = v] : v \in Points}
      \cup {[m EXCEPT !.UserID = id, !.X3ZKP = v] : v \in TamperZKP(m.X3ZKP)}
      \cup {[m EXCEPT !.UserID = id, !.X4ZKP = v] : v \in TamperZKP(m.X4ZKP)}
      \cup {[m EXCEPT !.UserID = id, !.XsZKP = v] : v \in TamperZKP(m.XsZKP)}
      : id \in UserIDs }

Tamper3(m) ==
    {m} \cup {[m EXCEPT !.A = v] : v \in Points}
        \cup {[m EXCEPT !.XsZKP = v] : v \in TamperZKP(m.XsZKP)}

\* The value on the wire, or the junk value while there is none.
OrJunk(sent, junk) == IF sent = {} THEN {junk} ELSE sent

\* What the caller may hand to an operation of a session at stage st: the
\* value on the wire and, while fewer than MaxAltered calls were handed an
\* altered value, its alterations.  An operation reads its argument only at
\* its own stage, so elsewhere one argument stands for all.
MayAlter == altered < MaxAltered
Msg1Inputs(st) ==
    wire.msg1 \cup
    (IF ~MayAlter THEN {}
     ELSE IF st = 2 THEN UNION {Tamper1(m) : m \in OrJunk(wire.msg1, JunkMsg1)}
     ELSE {JunkMsg1})
Msg2Inputs(st) ==
    wire.msg2 \cup
    (IF ~MayAlter THEN {}
     ELSE IF st = 3 THEN UNION {Tamper2(m) : m \in OrJunk(wire.msg2, JunkMsg2)}
     ELSE {JunkMsg2})
Msg3Inputs(st) ==
    wire.msg3 \cup
    (IF ~MayAlter THEN {}
     ELSE IF st = 4 THEN UNION {Tamper3(m) : m \in OrJunk(wire.msg3, JunkMsg3)}
     ELSE {JunkMsg3})
TagInputs(sent) == sent \cup (IF MayAlter THEN {JunkTag} ELSE {})

\* A ZKP carrying the identity as T or zero as R.
DegenerateZKP(z) == Infinity(z.T) \/ Zero(z.R)
DegenerateMsg1(m) ==
    Infinity(m.X1G) \/ Infinity(m.X2G) \/ DegenerateZKP(m.X1ZKP) \/ DegenerateZKP(m.X2ZKP)
DegenerateMsg2(m) ==
    \/ Infinity(m.X3G) \/ Infinity(m.X4G) \/ Infinity(m.B)
    \/ DegenerateZKP(m.X3ZKP) \/ DegenerateZKP(m.X4ZKP) \/ DegenerateZKP(m.XsZKP)

\* The calls of the honest run, in order: operation and session.
HonestOrder ==
    <<(<<"Pass1Message", "A">>), (<<"GetPass2Message", "B">>), (<<"GetPass3Message", "A">>),
      (<<"ProcessPass3Message", "B">>), (<<"ProcessSessionConfirmation1", "A">>),
      (<<"ProcessSessionConfirmation2", "B">>)>>

\* The call is the next one of the honest run: the right operation on the
\* right session, given the unaltered value the previous call returned.
IsHonestCall(op, p, unaltered) ==
    /\ honest >= 0 /\ honest < Len(HonestOrder)
    /\ HonestOrder[honest + 1] = <<op, p>>
    /\ unaltered

\* What a call of op on session p with result res leaves behind; an honest
\* call that fails ends the honest run: with honest = -3 when a draw of
\* random bytes failed, with honest = -2 on any other error.
Call(op, p, res, out, unaltered) ==
    /\ jp' = [jp EXCEPT ![p] = res.jp]
    /\ wire' = out
    /\ altered' = IF unaltered THEN altered ELSE altered + 1
    /\ honest' = IF IsHonestCall(op, p, unaltered)
                 THEN (IF res.err = NoErr THEN honest + 1
                       ELSE IF res.err = ErrRand THEN -3 ELSE -2)
                 ELSE -1
    /\ rejected' = [rejected EXCEPT ![p] =
                      IF res.err.kind \in {"invalid", "confirm"} THEN @ \cup {res.err.kind} ELSE @]
    /\ UNCHANGED <<pw, fn>>

\* No call of a constructor or of the proof engine on its own is under way.
NoCall == [op |-> "none"]

Init ==
    \E pwB \in Passwords, r1, r2, r3, r4 \in NewRandomScalar(1) :
        /\ pw = [A |-> AllPasswords[1], B |-> pwB]
        /\ jp = [A |-> InitThreePassJpakeWithConfigAndCurve(
                           TRUE, AllUserIDs[1], AllPasswords[1], NewConfig, r1, r2).jp,
                 B |-> InitThreePassJpakeWithConfigAndCurve(
                           FALSE, AllUserIDs[2], pwB, NewConfig, r3, r4).jp]
        /\ wire = [msg1 |-> {}, msg2 |-> {}, msg3 |-> {}, conf1 |-> {}, conf2 |-> {}]
        /\ altered = 0
        /\ honest = 0
        /\ rejected = [p \in Party |-> {}]
        /\ fn = NoCall

\* The outcomes to consider for the draws of a call: every outcome when
\* the call gets as far as drawing, one (unused) value when it does not.
DrawsWhen(reached) == IF reached THEN Draws ELSE {1}

DoPass1Message ==
    \E p \in Party :
        \E v1, v2 \in DrawsWhen(jp[p].Stage = 1) :
            LET res == Pass1Message(jp[p], <<v1, v2>>)
            IN  Call("Pass1Message", p, res, [wire EXCEPT !.msg1 = @ \cup res.out], TRUE)

DoGetPass2Message ==
    \E p \in Party :
        \E msg \in Msg1Inputs(jp[p].Stage) :
            \E v1, v2, v3 \in DrawsWhen(GetPass2Message(jp[p], msg, <<1, 1, 1>>).jp.Stage = 4) :
                LET res == GetPass2Message(jp[p], msg, <<v1, v2, v3>>)
                IN  Call("GetPass2Message", p, res, [wire EXCEPT !.msg2 = @ \cup res.out],
                         msg \in wire.msg1)

DoGetPass3Message ==
    \E p \in Party :
        \E msg \in Msg2Inputs(jp[p].Stage) :
            \E v1 \in DrawsWhen(GetPass3Message(jp[p], msg, <<1>>).err = NoErr) :
                LET res == GetPass3Message(jp[p], msg, <<v1>>)
                IN  Call("GetPass3Message", p, res, [wire EXCEPT !.msg3 = @ \cup res.out],
                         msg \in wire.msg2)

DoProcessPass3Message ==
    \E p \in Party :
        \E msg \in Msg3Inputs(jp[p].Stage) :
            LET res == ProcessPass3Message(jp[p], msg)
            IN  Call("ProcessPass3Message", p, res, [wire EXCEPT !.conf1 = @ \cup res.out],
                     msg \in wire.msg3)

DoProcessSessionConfirmation1 ==
    \E p \in Party :
        \E confirm1 \in TagInputs(wire.conf1) :
            LET res == ProcessSessionConfirmation1(jp[p], confirm1)
            IN  Call("ProcessSessionConfirmation1", p, res,
                     [wire EXCEPT !.conf2 = @ \cup res.out], confirm1 \in wire.conf1)

DoProcessSessionConfirmation2 ==
    \E p \in Party :
        \E confirm2 \in TagInputs(wire.conf2) :
            LET res == ProcessSessionConfirmation2(jp[p], confirm2)
            IN  Call("ProcessSessionConfirmation2", p, res, wire, confirm2 \in wire.conf2)

Next ==
    \/ DoPass1Message
    \/ DoGetPass2Message
    \/ DoGetPass3Message
    \/ DoProcessPass3Message
    \/ DoProcessSessionConfirmation1
    \/ DoProcessSessionConfirmation2

Spec == Init /\ [][Next]_vars

\* The run of two sessions built with the same password and with
\* session-confirmation labels of their own: "CONFIRM1" at the initiator,
\* "CONFIRM1" or "CONFIRM2" at the responder.
InitLabels ==
    \E scb \in {Str_CONFIRM1, Str_CONFIRM2}, r1, r2, r3, r4 \in NewRandomScalar(1) :
        /\ pw = [A |-> AllPasswords[1], B |-> AllPasswords[1]]
        /\ jp = [A |-> InitThreePassJpakeWithConfigAndCurve(
                           TRUE, AllUserIDs[1], AllPasswords[1],
                           SetSessionConfirmationBytes(NewConfig, Str_CONFIRM1), r1, r2).jp,
                 B |-> InitThreePassJpakeWithConfigAndCurve(
                           FALSE, AllUserIDs[2], AllPasswords[1],
                           SetSessionConfirmationBytes(NewConfig, scb), r3, r4).jp]
        /\ wire = [msg1 |-> {}, msg2 |-> {}, msg3 |-> {}, conf1 |-> {}, conf2 |-> {}]
        /\ altered = 0
        /\ honest = 0
        /\ rejected = [p \in Party |-> {}]
        /\ fn = NoCall

SpecLabels == InitLabels /\ [][Next]_vars

\* ------------------------------------------------------------- single calls
\* One call of a constructor on its own: fn holds the values it is handed,
\* whether it was made and what it returned.  No run is under way.
NoRun ==
    /\ pw = [p \in Party |-> <<>>]
    /\ jp = [p \in Party |-> NilJpake]
    /\ wire = [msg1 |-> {}, msg2 |-> {}, msg3 |-> {}, conf1 |-> {}, conf2 |-> {}]
    /\ altered = 0
    /\ honest = 0
    /\ rejected = [p \in Party |-> {}]

\* The stages a caller may hand to a Restore constructor.
Stages == 1 .. 8

\* The calls of RestoreThreePassJpakeWithCurveAndConfig: any stage, any
\* three scalars and any two peer points.
RestoreCalls ==
    [op : {"Restore"}, called : {FALSE}, stage : Stages,
     x1 : Scalars, x2 : Scalars, s : Scalars, otherX1G : Points, otherX2G : Points,
     res : {[jp |-> NilJpake, err |-> NoErr]}]

\* The calls of InitThreePassJpakeWithConfigAndCurve: either role, any
\* identifier and password, and any outcome of the two draws.
ConstructorCalls ==
    [op : {"Init"}, called : {FALSE}, initiator : BOOLEAN,
     userID : UserIDs, pw : Passwords, rand1 : Draws, rand2 : Draws,
     res : {[jp |-> NilJpake, err |-> NoErr]}]

\* What the verifier may be handed in place of one value of a proof: the
\* field replaced and the value put there (the other two are not used).
Replacements ==
    [field : {"none"}, point : {NewPoint}, scalar : {0}, id : {AllUserIDs[1]}]
    \cup [field : {"T", "Y", "G"}, point : Points, scalar : {0}, id : {AllUserIDs[1]}]
    \cup [field : {"R"}, point : {NewPoint}, scalar : Scalars, id : {AllUserIDs[1]}]
    \cup [field : {"id"}, point : {NewPoint}, scalar : {0},
          id : {AllUserIDs[i] : i \in DOMAIN AllUserIDs}]

\* The calls of computeZKP followed by checkZKP: a non-zero x, a generator
\* other than the identity, the prover's identifier, the outcome of the
\* draw of v and what the verifier is handed.
ProofCalls ==
    [op : {"ZKP"}, called : {FALSE}, x : 1 .. (N - 1), generator : Points \ {NewPoint},
     id : UserIDs, v : Draws, replaced : Replacements,
     res : {[jp |-> NilJpake, err |-> NoErr]}]

\* The calls of checkZKP on its own: any received ZKPMsg (T, R and the
\* field C, set or not), any generator, any public value and any sender
\* identifier held by the verifier.
CheckCalls ==
    [op : {"Check"}, called : {FALSE},
     msgObj : [T : Points, R : Scalars, C : Scalars \cup {NilScalar}],
     generator : Points, y : Points, id : {AllUserIDs[i] : i \in DOMAIN AllUserIDs},
     res : {[jp |-> NilJpake, err |-> NoErr]}]

\* The bytes of the secrets handed to NewScalarFromSecret on its own, and
\* the secrets: every string of them of up to MaxSecretLen bytes.
SecretBytes == {0, 1, 2, 255}
Secrets == UNION {[1 .. n -> SecretBytes] : n \in 0 .. MaxSecretLen}

\* The calls of NewScalarFromSecret(1, b) and of NewRandomScalar(1): any
\* secret and any outcome of the draw.
ScalarCalls ==
    [op : {"Scalar"}, called : {FALSE}, b : Secrets, drawn : Draws,
     res : {[jp |-> NilJpake, err |-> NoErr]}]

\* The byte strings handed to concat on its own: the empty one, single
\* bytes, and strings that read as the length written before an empty and
\* before a one-byte part; and the sequences of up to MaxParts of them.
Parts ==
    {<<>>, <<0>>, <<1>>, <<0, 0, 0, 0, 0, 0, 0, 0>>, <<0, 0, 0, 0, 0, 0, 0, 1>>}
PartSeqs == UNION {[1 .. n -> Parts] : n \in 0 .. MaxParts}

\* The calls of concat.
ConcatCalls ==
    [op : {"concat"}, called : {FALSE}, parts : PartSeqs,
     res : {[jp |-> NilJpake, err |-> NoErr]}]

InitCalls ==
    /\ NoRun
    /\ \/ fn \in RestoreCalls
       \/ fn \in ConstructorCalls
       \/ fn \in ProofCalls
       \/ fn \in CheckCalls
       \/ fn \in ScalarCalls
       \/ fn \in ConcatCalls

DoRestore ==
    /\ fn.op = "Restore" /\ ~fn.called
    /\ fn' = [fn EXCEPT !.called = TRUE,
                        !.res = RestoreThreePassJpakeWithCurveAndConfig(
                                    fn.stage, AllUserIDs[1], AllUserIDs[2], <<>>,
                                    fn.x1, fn.x2, fn.s, fn.otherX1G, fn.otherX2G, NewConfig)]
    /\ UNCHANGED <<jp, pw, wire, altered, honest, rejected>>

DoInit ==
    /\ fn.op = "Init" /\ ~fn.called
    /\ fn' = [fn EXCEPT !.called = TRUE,
                        !.res = InitThreePassJpakeWithConfigAndCurve(
                                    fn.initiator, fn.userID, fn.pw, NewConfig, fn.rand1, fn.rand2)]
    /\ UNCHANGED <<jp, pw, wire, altered, honest, rejected>>

\* A session of the prover, whose userID is id, and one of the verifier,
\* whose OtherUserID is id.
Prover(id) ==
    InitThreePassJpakeWithConfigAndCurve(TRUE, id, AllPasswords[1], NewConfig, 1, 1).jp
Verifier(id) ==
    [InitThreePassJpakeWithConfigAndCurve(FALSE, <<>>, AllPasswords[1], NewConfig, 1, 1).jp
        EXCEPT !.OtherUserID = id]

\* What the verifier of call f is handed, given the proof z.
HandedProof(f, z) ==
    IF f.replaced.field = "T" THEN [z EXCEPT !.T = f.replaced.point]
    ELSE IF f.replaced.field = "R" THEN [z EXCEPT !.R = f.replaced.scalar]
    ELSE z
HandedGenerator(f) == IF f.replaced.field = "G" THEN f.replaced.point ELSE f.generator
HandedY(f) ==
    IF f.replaced.field = "Y" THEN f.replaced.point ELSE ScalarMult(f.generator, f.x)
HandedID(f) == IF f.replaced.field = "id" THEN f.replaced.id ELSE f.id

\* computeZKP(x, G, Y) with Y = x*G in the prover's session, then checkZKP
\* in the verifier's: once on the proof as it is and once on what the
\* verifier is handed.
DoZKP ==
    /\ fn.op = "ZKP" /\ ~fn.called
    /\ LET y == ScalarMult(fn.generator, fn.x)
           z == computeZKP(Prover(fn.id), fn.x, fn.generator, y, fn.v)
       IN  fn' = [fn EXCEPT
                     !.called = TRUE,
                     !.res = [err |-> z.err, proof |-> z.msg,
                              accepted |-> z.err = NoErr
                                           /\ checkZKP(Verifier(fn.id), z.msg, fn.generator, y),
                              handed |-> z.err = NoErr
                                         /\ checkZKP(Verifier(HandedID(fn)), HandedProof(fn, z.msg),
                                                     HandedGenerator(fn), HandedY(fn))]]
    /\ UNCHANGED <<jp, pw, wire, altered, honest, rejected>>

DoCheckZKP ==
    /\ fn.op = "Check" /\ ~fn.called
    /\ fn' = [fn EXCEPT !.called = TRUE,
                        !.res = [verdict |-> checkZKP(Verifier(fn.id), fn.msgObj, fn.generator, fn.y)]]
    /\ UNCHANGED <<jp, pw, wire, altered, honest, rejected>>

DoScalar ==
    /\ fn.op = "Scalar" /\ ~fn.called
    /\ fn' = [fn EXCEPT !.called = TRUE,
                        !.res = [secret |-> NewScalarFromSecret(1, fn.b),
                                 random |-> fn.drawn,
                                 err |-> IF fn.drawn = RandFail THEN ErrRand ELSE NoErr]]
    /\ UNCHANGED <<jp, pw, wire, altered, honest, rejected>>

DoConcat ==
    /\ fn.op = "concat" /\ ~fn.called
    /\ fn' = [fn EXCEPT !.called = TRUE, !.res = [out |-> concat(fn.parts)]]
    /\ UNCHANGED <<jp, pw, wire, altered, honest, rejected>>

NextCalls ==
    \/ DoRestore
    \/ DoInit
    \/ DoZKP
    \/ DoCheckZKP
    \/ DoScalar
    \/ DoConcat

SpecCalls == InitCalls /\ [][NextCalls]_vars

\* ------------------------------------------------------------- properties
\* The values an operation may be handed in the current state, whatever
\* was altered before: what is on the wire and every alteration of it.
AnyMsg1 == UNION {Tamper1(m) : m \in OrJunk(wire.msg1, JunkMsg1)}
AnyMsg2 == UNION {Tamper2(m) : m \in OrJunk(wire.msg2, JunkMsg2)}
AnyMsg3 == UNION {Tamper3(m) : m \in OrJunk(wire.msg3, JunkMsg3)}
AnyTag == wire.conf1 \cup wire.conf2 \cup {JunkTag}

\* The draws that succeed, for the operations whose outcome a property reads.
OkDraws == <<1, 1, 1>>

\* A proof the receiver will refuse although the sender made it honestly:
\* its r is zero or its challenge is zero.
RefusedProof(z, generator, y, id) == Zero(z.R) \/ Challenge(generator, z.T, y, id) = 0

\* The composite generators of the two sides: the responder's is
\* x3G + X1G + X2G, the initiator's is x1G + X3G + X4G.
GeneratorOfB == Add(Add(jp.B.x1G, jp.A.x1G), jp.A.x2G)
GeneratorOfA == Add(Add(jp.A.x1G, jp.B.x1G), jp.B.x2G)

\* The run is degenerate: a composite generator is the identity, or a proof
\* sent so far is one the receiver refuses.
DegenerateRun ==
    \/ Infinity(GeneratorOfB)
    \/ Infinity(GeneratorOfA)
    \/ \E m \in wire.msg1 :
          \/ RefusedProof(m.X1ZKP, NewGeneratorPoint, m.X1G, m.UserID)
          \/ RefusedProof(m.X2ZKP, NewGeneratorPoint, m.X2G, m.UserID)
    \/ \E m \in wire.msg2 :
          \/ RefusedProof(m.X3ZKP, NewGeneratorPoint, m.X3G, m.UserID)
          \/ RefusedProof(m.X4ZKP, NewGeneratorPoint, m.X4G, m.UserID)
          \/ RefusedProof(m.XsZKP, GeneratorOfB, m.B, m.UserID)
    \/ \E m \in wire.msg3 : RefusedProof(m.XsZKP, GeneratorOfA, m.A, jp.A.userID)

SamePassword == pw.A = pw.B

\* C1 as the spec states it: in the honest run of two sessions with the same
\* password no call returns an error (and so the run ends with the
\* initiator at stage 7, the responder at stage 8 and equal keys).
C1_HonestRunNeverFails ==
    SamePassword => honest # -2

\* C1, amended: in the honest run of two sessions with distinct userIDs and
\* the same password, a call returns an error only when a draw of random
\* bytes fails or the run is degenerate (a proof with r = 0 or challenge 0,
\* or a composite generator equal to the identity); each call that returns
\* leaves its session at the next stage, and a run whose six calls all
\* returned ends with the initiator at stage 7, the responder at stage 8
\* and equal SessionKey values.
C1_HonestRunSucceeds ==
    SamePassword =>
        /\ honest = -2 => DegenerateRun
        /\ honest = Len(HonestOrder) =>
              /\ jp.A.Stage = 7 /\ jp.B.Stage = 8
              /\ jp.A.SessionKey = jp.B.SessionKey /\ jp.A.SessionKey # <<>>
        /\ honest \in 1 .. Len(HonestOrder) =>
              jp[HonestOrder[honest][2]].Stage = honest + 2

C1_Witness ==
    /\ SamePassword /\ honest = Len(HonestOrder) /\ altered = 0
    /\ jp.A.Stage = 7 /\ jp.B.Stage = 8 /\ jp.A.SessionKey = jp.B.SessionKey

\* C2: over any sequence of calls Stage never decreases and changes only by
\* the six permitted transitions 1 to 3, 2 to 4, 3 to 5, 4 to 6, 5 to 7 and
\* 6 to 8, each made by its own operation; nothing changes Stage from 7 or 8.
PermittedTransitions ==
    {<<1, 3>>, <<2, 4>>, <<3, 5>>, <<4, 6>>, <<5, 7>>, <<6, 8>>}
StageStep(s, res, from) ==
    \/ res.jp.Stage = s.Stage
    \/ s.Stage = from /\ res.jp.Stage = from + 2
C2_StageTransitions ==
    \A p \in Party :
        LET s == jp[p]
        IN  /\ s.Stage \in 1 .. 8
            /\ \A v \in Draws : StageStep(s, Pass1Message(s, <<v, 1>>), 1)
            /\ \A msg \in AnyMsg1 : StageStep(s, GetPass2Message(s, msg, OkDraws), 2)
            /\ \A msg \in AnyMsg2 : StageStep(s, GetPass3Message(s, msg, OkDraws), 3)
            /\ \A msg \in AnyMsg3 : StageStep(s, ProcessPass3Message(s, msg), 4)
            /\ \A tag \in AnyTag : StageStep(s, ProcessSessionConfirmation1(s, tag), 5)
            /\ \A tag \in AnyTag : StageStep(s, ProcessSessionConfirmation2(s, tag), 6)

\* C2 over the steps of the run: every step leaves each Stage alone or
\* moves it by a permitted transition.
C2_StageMonotone ==
    [][\A p \in Party :
          \/ jp'[p].Stage = jp[p].Stage
          \/ <<jp[p].Stage, jp'[p].Stage>> \in PermittedTransitions]_vars

C2_Witness ==
    /\ jp.A.Stage = 7 /\ jp.B.Stage = 8
    /\ \A tag \in AnyTag :
          /\ ProcessSessionConfirmation1(jp.A, tag).jp.Stage = 7
          /\ ProcessSessionConfirmation2(jp.B, tag).jp.Stage = 8

\* C3: every operation called at a Stage other than the one that enables it
\* returns the stage-mismatch error and leaves every field of the session
\* unchanged.
StageMismatch(s, res, expected) ==
    res.err = ErrStage(expected, s.Stage) /\ res.jp = s /\ res.out = {}
C3_WrongStageRefused ==
    \A p \in Party :
        LET s == jp[p]
        IN  /\ s.Stage # 1 =>
                \A v \in Draws : StageMismatch(s, Pass1Message(s, <<v, v>>), 1)
            /\ s.Stage # 2 =>
                \A msg \in AnyMsg1 : StageMismatch(s, GetPass2Message(s, msg, OkDraws), 2)
            /\ s.Stage # 3 =>
                \A msg \in AnyMsg2 : StageMismatch(s, GetPass3Message(s, msg, OkDraws), 3)
            /\ s.Stage # 4 =>
                \A msg \in AnyMsg3 : StageMismatch(s, ProcessPass3Message(s, msg), 4)
            /\ s.Stage # 5 =>
                \A tag \in AnyTag : StageMismatch(s, ProcessSessionConfirmation1(s, tag), 5)
            /\ s.Stage # 6 =>
                \A tag \in AnyTag : StageMismatch(s, ProcessSessionConfirmation2(s, tag), 6)

C3_Witness ==
    /\ jp.A.Stage = 5 /\ jp.B.Stage = 6
    /\ \E msg \in wire.msg2 : GetPass3Message(jp.A, msg, OkDraws).err = ErrStage(3, 5)
    /\ \E msg \in wire.msg1 : GetPass2Message(jp.B, msg, OkDraws).err = ErrStage(2, 6)

\* C4: when GetPass2Message, GetPass3Message or ProcessPass3Message rejects
\* the received message, Stage does not advance and OtherUserID, OtherX1G,
\* OtherX2G and SessionKey keep the values they had before the call.
Kept(s, res) ==
    /\ res.jp.Stage = s.Stage
    /\ res.jp.OtherUserID = s.OtherUserID
    /\ res.jp.OtherX1G = s.OtherX1G
    /\ res.jp.OtherX2G = s.OtherX2G
    /\ res.jp.SessionKey = s.SessionKey
RejectionKeeps(s, res) == res.err = ErrInvalid => Kept(s, res)
C4_RejectionKeepsFields ==
    \A p \in Party :
        LET s == jp[p]
        IN  /\ s.Stage = 2 =>
                \A msg \in AnyMsg1 : RejectionKeeps(s, GetPass2Message(s, msg, OkDraws))
            /\ s.Stage = 3 =>
                \A msg \in AnyMsg2 : RejectionKeeps(s, GetPass3Message(s, msg, OkDraws))
            /\ s.Stage = 4 =>
                \A msg \in AnyMsg3 : RejectionKeeps(s, ProcessPass3Message(s, msg))

\* C4 for the unaltered Msg1 alone: GetPass2Message rejecting the message
\* the initiator sent leaves Stage at 2.
C4_RejectionKeepsStage ==
    jp.B.Stage = 2 =>
        \A msg \in wire.msg1 :
            LET res == GetPass2Message(jp.B, msg, OkDraws)
            IN  res.err = ErrInvalid => res.jp.Stage = 2

\* The sum of the four private scalars x1, x2 (initiator) and x3, x4
\* (responder) is a multiple of the group order: both sides then derive the
\* same key whatever the passwords are.
ScalarsCancel == Mod(jp.A.X1 + jp.A.X2 + jp.B.X1 + jp.B.X2, N) = 0

SelfRejected(s, res, at) ==
    /\ res.err # NoErr /\ res.jp = s /\ res.out = {}
    /\ s.Stage = at => res.err = ErrInvalid
C6_OwnUserIDRejected ==
    \A p \in Party :
        LET s == jp[p]
        IN  /\ \A msg \in AnyMsg1 :
                  msg.UserID = s.userID =>
                      SelfRejected(s, GetPass2Message(s, msg, OkDraws), 2)
            /\ \A msg \in AnyMsg2 :
                  msg.UserID = s.userID =>
                      SelfRejected(s, GetPass3Message(s, msg, OkDraws), 3)

C6_Witness ==
    /\ jp.A.Stage = 3 /\ jp.B.Stage = 4
    /\ \E msg \in wire.msg2 :
          LET own == [msg EXCEPT !.UserID = jp.A.userID]
          IN  /\ GetPass3Message(jp.A, msg, OkDraws).err = NoErr
              /\ GetPass3Message(jp.A, own, OkDraws).err = ErrInvalid
              /\ GetPass3Message(jp.A, own, OkDraws).jp.Stage = 3

\* C7: GetPass2Message returns the invalid-message error and stays at stage
\* 2 for every Msg1 in which X1G or X2G is the identity or a proof has the
\* identity as T or zero as R; GetPass3Message does the same at stage 3 for
\* every Msg2 in which X3G, X4G or B is the identity or a proof has the
\* identity as T or zero as R.
C7_DegenerateRejected ==
    \A p \in Party :
        LET s == jp[p]
        IN  /\ s.Stage = 2 =>
                \A msg \in AnyMsg1 :
                    DegenerateMsg1(msg) =>
                        LET res == GetPass2Message(s, msg, OkDraws)
                        IN  res.err = ErrInvalid /\ res.jp.Stage = 2 /\ res.out = {}
            /\ s.Stage = 3 =>
                \A msg \in AnyMsg2 :
                    DegenerateMsg2(msg) =>
                        LET res == GetPass3Message(s, msg, OkDraws)
                        IN  res.err = ErrInvalid /\ res.jp.Stage = 3 /\ res.out = {}

C7_Witness ==
    /\ jp.A.Stage = 3 /\ jp.B.Stage = 4
    /\ \E msg \in wire.msg2 :
          /\ GetPass3Message(jp.A, msg, OkDraws).err = NoErr
          /\ \A bad \in {[msg EXCEPT !.B = NewPoint], [msg EXCEPT !.XsZKP.R = 0],
                         [msg EXCEPT !.X4ZKP.T = NewPoint]} :
                /\ bad \in AnyMsg2 /\ DegenerateMsg2(bad)
                /\ GetPass3Message(jp.A, bad, OkDraws).err = ErrInvalid

\* C8: ProcessSessionConfirmation1 at stage 5 succeeds exactly when the
\* given tag is the MAC under SessionKey over ("KC_1_U", OtherUserID,
\* userID, OtherX1G, OtherX2G, x1G, x2G); it then moves to stage 7 and
\* returns the MAC over ("KC_1_U", userID, OtherUserID, x1G, x2G, OtherX1G,
\* OtherX2G).  ProcessSessionConfirmation2 at stage 6 succeeds exactly when
\* the given tag is that same expected MAC of its session and then moves
\* to stage 8.
MacPeerFirst(s) ==
    ComputeConfirmationMac(s.config, s.SessionKey,
        concat(<<Str_KC_1_U, s.OtherUserID, s.userID, PointBytes(s.OtherX1G),
                 PointBytes(s.OtherX2G), PointBytes(s.x1G), PointBytes(s.x2G)>>))
MacOwnFirst(s) ==
    ComputeConfirmationMac(s.config, s.SessionKey,
        concat(<<Str_KC_1_U, s.userID, s.OtherUserID, PointBytes(s.x1G),
                 PointBytes(s.x2G), PointBytes(s.OtherX1G), PointBytes(s.OtherX2G)>>))
C8_ConfirmationExact ==
    \A p \in Party :
        LET s == jp[p]
        IN  /\ s.Stage = 5 =>
                \A tag \in AnyTag \cup {MacPeerFirst(s), MacOwnFirst(s)} :
                    LET res == ProcessSessionConfirmation1(s, tag)
                    IN  /\ (res.err = NoErr) <=> (tag = MacPeerFirst(s))
                        /\ res.err = NoErr =>
                              /\ res.jp = [s EXCEPT !.Stage = 7]
                              /\ res.out = {MacOwnFirst(s)}
            /\ s.Stage = 6 =>
                \A tag \in AnyTag \cup {MacPeerFirst(s), MacOwnFirst(s)} :
                    LET res == ProcessSessionConfirmation2(s, tag)
                    IN  /\ (res.err = NoErr) <=> (tag = MacPeerFirst(s))
                        /\ res.err = NoErr =>
                              /\ res.jp = [s EXCEPT !.Stage = 8]
                              /\ res.out = {}

C8_Witness ==
    /\ jp.A.Stage = 7 /\ jp.B.Stage = 8
    /\ wire.conf1 = {MacPeerFirst(jp.A)}
    /\ wire.conf2 = {MacOwnFirst(jp.A)}
    /\ wire.conf2 = {MacPeerFirst(jp.B)}

\* C9: after ProcessSessionConfirmation1 or ProcessSessionConfirmation2 has
\* rejected a tag, SessionKey is not erased and no later call of any
\* operation changes the Stage of that session.
C9_RejectionBlocksStage ==
    [][\A p \in Party :
          "confirm" \in rejected[p] =>
              /\ jp'[p].SessionKey = jp[p].SessionKey /\ jp[p].SessionKey # <<>>
              /\ jp'[p].Stage = jp[p].Stage]_vars

\* A step in which an operation of session p returns without error: the
\* session moves on and hands back a value, or reaches stage 8.
Succeeds(p) ==
    /\ jp'[p].Stage # jp[p].Stage
    /\ wire' # wire \/ jp'[p].Stage = 8

\* C10: after GetPass2Message, GetPass3Message or ProcessPass3Message has
\* returned a validation error, no later operation on that session
\* succeeds.
C10_NoSuccessAfterValidationError ==
    [][\A p \in Party : "invalid" \in rejected[p] => ~Succeeds(p)]_vars
\* Both sessions were built with the same session-confirmation label.
SameLabel == jp.A.config.sessionConfirmationBytes = jp.B.config.sessionConfirmationBytes

\* C11 as the spec states it: with the same password and different
\* session-confirmation labels the first four calls of the honest run
\* return no error, the SessionKey values are equal and
\* ProcessSessionConfirmation1 rejects the responder's tag.
C11_DifferentLabelsAlwaysReject ==
    (SamePassword /\ ~SameLabel) =>
        /\ honest # -2 \/ (jp.A.Stage = 5 /\ jp.B.Stage = 6)
        /\ honest = 4 =>
              /\ jp.A.SessionKey = jp.B.SessionKey
              /\ \A tag \in wire.conf1 :
                    ProcessSessionConfirmation1(jp.A, tag).err = ErrConfirm

\* C11, amended: with the same password and different session-confirmation
\* labels, the first four calls of the honest run return an error only
\* when a draw of random bytes fails or the run is degenerate; when they
\* have all returned, the initiator is at stage 5 and the responder at
\* stage 6 with equal SessionKey values, and ProcessSessionConfirmation1
\* rejects the responder's tag, leaving the initiator at stage 5.
C11_DifferentLabels ==
    (SamePassword /\ ~SameLabel) =>
        /\ (honest = -2 /\ jp.B.Stage # 6) => DegenerateRun
        /\ honest = 4 =>
              /\ jp.A.Stage = 5 /\ jp.B.Stage = 6
              /\ jp.A.SessionKey = jp.B.SessionKey /\ jp.A.SessionKey # <<>>
              /\ \A tag \in wire.conf1 :
                    LET res == ProcessSessionConfirmation1(jp.A, tag)
                    IN  res.err = ErrConfirm /\ res.jp = jp.A
        /\ (honest = -2 /\ jp.B.Stage = 6) =>
              /\ jp.A.Stage = 5 /\ "confirm" \in rejected.A
              /\ jp.A.SessionKey = jp.B.SessionKey
        /\ honest \notin {5, 6}

C11_Witness ==
    /\ SamePassword /\ ~SameLabel /\ honest = -2 /\ altered = 0
    /\ jp.A.Stage = 5 /\ jp.B.Stage = 6
    /\ "confirm" \in rejected.A
    /\ jp.A.SessionKey = jp.B.SessionKey /\ jp.A.SessionKey # <<>>

\* ------------------------------------------------------------- C12
\* The values of session s that a caller can read and keep.
Restored(s) ==
    RestoreThreePassJpake(s.Stage, s.userID, s.OtherUserID, s.SessionKey,
                          s.X1, s.X2, s.S, s.OtherX1G, s.OtherX2G)
RestoredWithConfig(s) ==
    RestoreThreePassJpakeWithConfig(s.Stage, s.userID, s.OtherUserID, s.SessionKey,
                                    s.X1, s.X2, s.S, s.OtherX1G, s.OtherX2G, s.config)

\* Sessions s and t have the same Stage, derived values and peer values.
SameValues(s, t) ==
    /\ s.Stage = t.Stage
    /\ s.x1G = t.x1G /\ s.x2G = t.x2G /\ s.x2s = t.x2s
    /\ s.OtherUserID = t.OtherUserID /\ s.OtherX1G = t.OtherX1G /\ s.OtherX2G = t.OtherX2G

\* Results q and r of one operation: the same error, the same value
\* returned and the same SessionKey left behind.
SameOutcome(q, r) ==
    q.err = r.err /\ q.out = r.out /\ q.jp.SessionKey = r.jp.SessionKey

\* Every operation, on every value it may be handed in the current state
\* and every outcome of its draws, does on t what it does on s.
SameBehaviour(s, t) ==
    /\ \A v1, v2 \in Draws : SameOutcome(Pass1Message(s, <<v1, v2>>), Pass1Message(t, <<v1, v2>>))
    /\ \A msg \in wire.msg1 \cup {JunkMsg1} :
           SameOutcome(GetPass2Message(s, msg, OkDraws), GetPass2Message(t, msg, OkDraws))
    /\ \A msg \in wire.msg2 \cup {JunkMsg2} :
           SameOutcome(GetPass3Message(s, msg, OkDraws), GetPass3Message(t, msg, OkDraws))
    /\ \A msg \in wire.msg3 \cup {JunkMsg3} :
           SameOutcome(ProcessPass3Message(s, msg), ProcessPass3Message(t, msg))
    /\ \A tag \in wire.conf1 \cup wire.conf2 \cup {JunkTag} :
           /\ SameOutcome(ProcessSessionConfirmation1(s, tag), ProcessSessionConfirmation1(t, tag))
           /\ SameOutcome(ProcessSessionConfirmation2(s, tag), ProcessSessionConfirmation2(t, tag))

\* C12 as stated: the values of a session, handed to RestoreThreePassJpake,
\* give a session with the same Stage, derived values and peer values, on
\* which every operation accepts and rejects what it does on the original
\* and leaves the same SessionKey.
C12_RestoreRoundTripAnyConfig ==
    \A p \in Party :
        LET res == Restored(jp[p])
        IN  /\ res.err = NoErr
            /\ SameValues(jp[p], res.jp)
            /\ SameBehaviour(jp[p], res.jp)

\* C12 amended: the values of a session, handed to
\* RestoreThreePassJpakeWithConfig with the session's own configuration,
\* give the session back: every field is the same and every operation does
\* on the restored session what it does on the original; handed to
\* RestoreThreePassJpake they do so when that configuration is NewConfig's.
C12_RestoreRoundTrip ==
    \A p \in Party :
        LET res == RestoredWithConfig(jp[p])
            dflt == Restored(jp[p])
        IN  /\ res.err = NoErr
            /\ res.jp = jp[p]
            /\ SameValues(jp[p], res.jp)
            /\ SameBehaviour(jp[p], res.jp)
            /\ dflt.err = NoErr
            /\ SameValues(jp[p], dflt.jp)
            /\ dflt.jp = [jp[p] EXCEPT !.config = NewConfig]

\* The initiator holds a key and the responder's tag is on the wire: the
\* restored initiator accepts the tag as the original does and answers
\* with the same tag of its own.
C12_Witness ==
    /\ jp.A.Stage = 5 /\ jp.A.SessionKey # <<>> /\ jp.A.config # NewConfig
    /\ \E tag \in wire.conf1 :
           LET q == ProcessSessionConfirmation1(jp.A, tag)
               r == ProcessSessionConfirmation1(RestoredWithConfig(jp.A).jp, tag)
           IN  q.err = NoErr /\ r = q /\ r.jp.Stage = 7


\* ------------------------------------------------------------- C13
\* C13: RestoreThreePassJpakeWithCurveAndConfig returns an error and no
\* session when x1, x2 or s is zero and, from stage 4 on, when otherX1G or
\* otherX2G is the identity; below stage 4 the peer points are not looked
\* at, and every other call returns the session with the values handed in.
C13_RestoreRejects ==
    (fn.op = "Restore" /\ fn.called) =>
        LET zero == Zero(fn.x1) \/ Zero(fn.x2) \/ Zero(fn.s)
            identity == Infinity(fn.otherX1G) \/ Infinity(fn.otherX2G)
        IN  /\ zero => (fn.res.err # NoErr /\ fn.res.jp = NilJpake)
            /\ (fn.stage >= 4 /\ identity) => (fn.res.err # NoErr /\ fn.res.jp = NilJpake)
            /\ (~zero /\ (fn.stage < 4 \/ ~identity)) =>
                   /\ fn.res.err = NoErr
                   /\ fn.res.jp.Stage = fn.stage
                   /\ fn.res.jp.X1 = fn.x1 /\ fn.res.jp.X2 = fn.x2 /\ fn.res.jp.S = fn.s
                   /\ fn.res.jp.OtherX1G = fn.otherX1G /\ fn.res.jp.OtherX2G = fn.otherX2G

\* A stage-4 call with sound scalars and the identity as otherX2G only was
\* refused.
C13_Witness ==
    /\ fn.op = "Restore" /\ fn.called /\ fn.stage = 4
    /\ ~Zero(fn.x1) /\ ~Zero(fn.x2) /\ ~Zero(fn.s)
    /\ ~Infinity(fn.otherX1G) /\ Infinity(fn.otherX2G)
    /\ fn.res.err = ErrRestore("otherx2g cannot be at infinity") /\ fn.res.jp = NilJpake


\* ------------------------------------------------------------- C14
\* C14: a session InitThreePassJpakeWithConfigAndCurve returns without
\* error has Stage 1 for the initiator and 2 for the responder, X1, X2 and
\* S in 1..N-1, x2s = X2*S mod N, x1G = X1*G, x2G = X2*G, an empty
\* SessionKey and no peer values.
C14_InitPostconditions ==
    (fn.op = "Init" /\ fn.called /\ fn.res.err = NoErr) =>
        LET s == fn.res.jp
        IN  /\ s.Stage = (IF fn.initiator THEN 1 ELSE 2)
            /\ s.X1 \in 1 .. (N - 1) /\ s.X2 \in 1 .. (N - 1) /\ s.S \in 1 .. (N - 1)
            /\ s.x2s = (s.X2 * s.S) % N
            /\ s.x1G = (s.X1 * NewGeneratorPoint) % N
            /\ s.x2G = (s.X2 * NewGeneratorPoint) % N
            /\ s.SessionKey = <<>>
            /\ s.OtherUserID = <<>> /\ s.OtherX1G = NilPoint /\ s.OtherX2G = NilPoint
            /\ s.userID = fn.userID

\* A responder was built without error.
C14_Witness ==
    /\ fn.op = "Init" /\ fn.called /\ ~fn.initiator
    /\ fn.res.err = NoErr /\ fn.res.jp.Stage = 2 /\ fn.res.jp.X2 = 2


\* ------------------------------------------------------------- C15
\* The values of a session that construction sets.
Constructed(s) == <<s.userID, s.X1, s.X2, s.S, s.x2s, s.x1G, s.x2G, s.config>>

\* C15: no operation, successful or failing, changes a session's userID,
\* X1, X2, S, x2s, x1G, x2G or config.
C15_ConstructedValuesKept ==
    [][\A p \in Party : Constructed(jp'[p]) = Constructed(jp[p])]_vars

\* Both sessions went through all their operations and the initiator
\* refused a tag on the way; the derived values are those of construction.
C15_Witness ==
    /\ jp.A.Stage = 7 /\ jp.B.Stage = 8 /\ "confirm" \in rejected.A
    /\ \A p \in Party :
           /\ jp[p].x1G = ScalarBaseMult(jp[p].X1)
           /\ jp[p].x2G = ScalarBaseMult(jp[p].X2)
           /\ jp[p].x2s = Multiply(jp[p].X2, jp[p].S)
           /\ jp[p].config = NewConfig


\* ------------------------------------------------------------- C16
\* The messages on the wire under any sender identifier, the third one
\* included.
FromAnyone(sent, junk) ==
    {[m EXCEPT !.UserID = AllUserIDs[i]] : m \in OrJunk(sent, junk), i \in DOMAIN AllUserIDs}

\* C16: OtherUserID is set once: when a session holds a value in
\* OtherUserID, no operation, whatever it is handed, leaves a different
\* value there.
C16_OtherUserIDSetOnce ==
    \A p \in Party :
        jp[p].OtherUserID # <<>> =>
            /\ \A msg \in FromAnyone(wire.msg1, JunkMsg1) :
                   GetPass2Message(jp[p], msg, OkDraws).jp.OtherUserID = jp[p].OtherUserID
            /\ \A msg \in FromAnyone(wire.msg2, JunkMsg2) :
                   GetPass3Message(jp[p], msg, OkDraws).jp.OtherUserID = jp[p].OtherUserID


\* ------------------------------------------------------------- C17
\* C17: SessionKey is written at most once: once a session holds a key, no
\* operation, successful or failing, changes it.
C17_SessionKeyWrittenOnce ==
    [][\A p \in Party : jp[p].SessionKey # <<>> => jp'[p].SessionKey = jp[p].SessionKey]_vars

\* Both sessions hold the key they derived, the initiator has refused a tag
\* since and both have been confirmed.
C17_Witness ==
    /\ jp.A.SessionKey # <<>> /\ jp.B.SessionKey # <<>>
    /\ "confirm" \in rejected.A /\ altered = 1
    /\ jp.A.Stage = 7 /\ jp.B.Stage = 8
    /\ \E m \in wire.msg2 : jp.A.SessionKey = computeSharedKey(jp.A, m.B).SessionKey


\* ------------------------------------------------------------- C18
\* The call under way is a proof made with a successful draw of v.
ProofMade == fn.op = "ZKP" /\ fn.called /\ fn.v # RandFail

\* The challenge of the proof made.
ProofChallenge ==
    Challenge(fn.generator, fn.res.proof.T, ScalarMult(fn.generator, fn.x), fn.id)

\* C18 as stated: for every non-zero x, generator G other than the
\* identity, Y = x*G and nonce v in 1..N-1, the proof of computeZKP is
\* accepted by checkZKP in a session whose OtherUserID is the prover's id.
C18_ProofAlwaysAccepted ==
    ProofMade => (fn.res.err = NoErr /\ fn.res.accepted)

\* C18 amended: the proof is T = v*G, r = v - c*x mod N, and checkZKP
\* accepts it exactly when r and the challenge c are both non-zero.
C18_ProofAccepted ==
    ProofMade =>
        /\ fn.res.err = NoErr
        /\ fn.res.proof.T = (fn.v * fn.generator) % N
        /\ fn.res.proof.R = (fn.v - ProofChallenge * fn.x) % N
        /\ fn.res.accepted <=> (fn.res.proof.R # 0 /\ ProofChallenge # 0)

\* A proof with non-zero r and c was made over a generator other than the
\* base point and accepted.
C18_Witness ==
    /\ ProofMade /\ fn.generator # NewGeneratorPoint /\ fn.replaced.field = "none"
    /\ fn.res.proof.R # 0 /\ ProofChallenge # 0 /\ fn.res.accepted


\* ------------------------------------------------------------- C19
\* The verifier was handed a value other than the one of the proof made.
Replaced ==
    /\ ProofMade
    /\ \/ fn.replaced.field = "T" /\ fn.replaced.point # fn.res.proof.T
       \/ fn.replaced.field = "R" /\ fn.replaced.scalar # fn.res.proof.R
       \/ fn.replaced.field = "Y" /\ fn.replaced.point # ScalarMult(fn.generator, fn.x)
       \/ fn.replaced.field = "G" /\ fn.replaced.point # fn.generator
       \/ fn.replaced.field = "id" /\ fn.replaced.id # fn.id

\* The challenge the verifier derives from what it is handed.
HandedChallenge ==
    Challenge(HandedGenerator(fn), HandedProof(fn, fn.res.proof).T, HandedY(fn), HandedID(fn))

\* What the verifier is handed satisfies R*G + c*Y = T for its challenge c.
HandedEquation ==
    (HandedProof(fn, fn.res.proof).R * HandedGenerator(fn) + HandedChallenge * HandedY(fn)) % N
        = HandedProof(fn, fn.res.proof).T

C20_FailedDrawKeepsState ==
    \A p \in Party :
        /\ \A v1, v2 \in Draws :
               LET res == Pass1Message(jp[p], <<v1, v2>>)
               IN  res.err = ErrRand => Kept(jp[p], res)
        /\ \A msg \in wire.msg1, v1, v2, v3 \in Draws :
               LET res == GetPass2Message(jp[p], msg, <<v1, v2, v3>>)
               IN  res.err = ErrRand => Kept(jp[p], res)
        /\ \A msg \in wire.msg2, v1 \in Draws :
               LET res == GetPass3Message(jp[p], msg, <<v1>>)
               IN  res.err = ErrRand => Kept(jp[p], res)


\* ------------------------------------------------------------- C21
\* The result is a refusal of the received message with the one error
\* "could not verify the validity of the received message".
OpaqueRejection(res) == res.err # NoErr => res.err = ErrInvalid

\* C21: whatever GetPass2Message, GetPass3Message or ProcessPass3Message is
\* handed at the stage that enables it, and whichever check refuses it (own
\* userID, failed proof, identity point, zero r, zero challenge, identity
\* composite generator), the error returned is the same one.
C21_OneRejectionError ==
    \A p \in Party :
        LET s == jp[p]
        IN  /\ s.Stage = 2 =>
                \A msg \in AnyMsg1 : OpaqueRejection(GetPass2Message(s, msg, OkDraws))
            /\ s.Stage = 3 =>
                \A msg \in AnyMsg2 : OpaqueRejection(GetPass3Message(s, msg, OkDraws))
            /\ s.Stage = 4 =>
                \A msg \in AnyMsg3 : OpaqueRejection(ProcessPass3Message(s, msg))

\* The responder refuses, with the same error, a Msg1 carrying its own
\* userID, one with the identity as X1G and one with a zero r.
C21_Witness ==
    /\ jp.B.Stage = 2
    /\ \E msg \in wire.msg1 :
          LET own == [msg EXCEPT !.UserID = jp.B.userID]
              point == [msg EXCEPT !.X1G = NewPoint]
              zero == [msg EXCEPT !.X2ZKP.R = 0]
          IN  /\ GetPass2Message(jp.B, msg, OkDraws).err = NoErr
              /\ GetPass2Message(jp.B, own, OkDraws).err = ErrInvalid
              /\ GetPass2Message(jp.B, point, OkDraws).err = ErrInvalid
              /\ GetPass2Message(jp.B, zero, OkDraws).err = ErrInvalid


\* ------------------------------------------------------------- C23
\* The call under way is a check of a received proof, made.
Checked == fn.op = "Check" /\ fn.called

\* The challenge of the proof checked.
CheckedChallenge == Challenge(fn.generator, fn.msgObj.T, fn.y, fn.id)

\* R*generator + c*Y = T for the proof checked.
CheckedEquation ==
    (fn.msgObj.R * fn.generator + CheckedChallenge * fn.y) % N = fn.msgObj.T

\* C23: checkZKP returns false whenever the generator, Y or T is the
\* identity, R is zero or the recomputed challenge is 0 mod N; otherwise it
\* returns true exactly when R*generator + c*Y = T.
C23_CheckZKPVerdict ==
    Checked =>
        /\ (fn.generator = NewPoint \/ fn.y = NewPoint \/ fn.msgObj.T = NewPoint) => ~fn.res.verdict
        /\ fn.msgObj.R = 0 => ~fn.res.verdict
        /\ CheckedChallenge = 0 => ~fn.res.verdict
        /\ (fn.generator # NewPoint /\ fn.y # NewPoint /\ fn.msgObj.T # NewPoint
               /\ fn.msgObj.R # 0 /\ CheckedChallenge # 0) =>
               (fn.res.verdict <=> CheckedEquation)

\* A proof with no identity point and a non-zero R that satisfies the
\* equation was refused for its zero challenge.
C23_Witness ==
    /\ Checked /\ fn.generator # NewPoint /\ fn.y # NewPoint /\ fn.msgObj.T # NewPoint
    /\ fn.msgObj.R # 0 /\ CheckedChallenge = 0 /\ CheckedEquation /\ ~fn.res.verdict


\* ------------------------------------------------------------- C24
\* The composite generator of GetPass2Message: own x1G + Msg1.X1G + Msg1.X2G.
Pass2Generator(s, msg) == (s.x1G + msg.X1G + msg.X2G) % N

\* C24: a successful GetPass2Message stores OtherUserID, OtherX1G and
\* OtherX2G from Msg1 and returns the Msg2 with the own userID, x1G and x2G
\* and B = x2s * (x1G + X1G + X2G); no Msg2 is returned when that composite
\* generator is the identity.
C24_Pass2MessageValues ==
    \A p \in Party :
        LET s == jp[p]
        IN  s.Stage = 2 =>
                \A msg \in AnyMsg1, v1, v2, v3 \in Draws :
                    LET res == GetPass2Message(s, msg, <<v1, v2, v3>>)
                    IN  /\ res.err = NoErr =>
                               /\ res.jp.OtherUserID = msg.UserID
                               /\ res.jp.OtherX1G = msg.X1G /\ res.jp.OtherX2G = msg.X2G
                               /\ Cardinality(res.out) = 1
                               /\ \A m \in res.out :
                                      /\ m.UserID = s.userID
                                      /\ m.X3G = s.x1G /\ m.X4G = s.x2G
                                      /\ m.B = (s.x2s * Pass2Generator(s, msg)) % N
                               /\ Pass2Generator(s, msg) # NewPoint
                        /\ res.err # NoErr => res.out = {}
                        /\ Pass2Generator(s, msg) = NewPoint => (res.err # NoErr /\ res.out = {})

\* The responder answered the initiator's Msg1: Msg2 is on the wire with
\* B = x2s * (x1G + X1G + X2G) and the peer's values are stored.
C24_Witness ==
    /\ jp.B.Stage = 4 /\ honest = 2
    /\ \E m1 \in wire.msg1, m2 \in wire.msg2 :
          /\ jp.B.OtherUserID = m1.UserID /\ jp.B.OtherX1G = m1.X1G /\ jp.B.OtherX2G = m1.X2G
          /\ m2.UserID = jp.B.userID /\ m2.X3G = jp.B.x1G /\ m2.X4G = jp.B.x2G
          /\ m2.B = (jp.B.x2s * Pass2Generator(jp.B, m1)) % N
          /\ m2.B # NewPoint


\* ------------------------------------------------------------- C25
\* The generators of the two composite proofs, as each side forms them:
\* the responder building B and its proof (GetPass2Message), the initiator
\* verifying that proof and building A and its own (GetPass3Message), the
\* responder verifying that one (ProcessPass3Message).
BuildsB(s, m1) == Add(Add(s.x1G, m1.X1G), m1.X2G)
VerifiesB(s, m2) == Add(Add(s.x1G, s.x2G), m2.X3G)
BuildsA(s, m2) == Add(Add(s.x1G, m2.X3G), m2.X4G)
VerifiesA(s) == Add(Add(s.x1G, s.x2G), s.OtherX1G)

BigEndian(b) ==
    LET RECURSIVE upto(_)
        upto(k) == IF k = 0 THEN 0 ELSE 256 * upto(k - 1) + b[k]
    IN  upto(Len(b))

\* C26: NewScalarFromSecret(1, b) is (b as a big-endian integer mod (N-1))
\* + 1, in 1..N-1 and never zero, for every byte string b; a successful
\* NewRandomScalar(1) returns a value in 1..N-1.
C26_ScalarsInRange ==
    (fn.op = "Scalar" /\ fn.called) =>
        /\ fn.res.secret = (BigEndian(fn.b) % (N - 1)) + 1
        /\ fn.res.secret \in 1 .. (N - 1)
        /\ ~Zero(fn.res.secret)
        /\ fn.res.err = NoErr => fn.res.random \in 1 .. (N - 1)
        /\ NewRandomScalar(1) \subseteq 1 .. (N - 1)

\* A three-byte secret that is a multiple of N was turned into a scalar
\* other than zero.
C26_Witness ==
    /\ fn.op = "Scalar" /\ fn.called /\ Len(fn.b) = 3 /\ fn.b[1] # 0
    /\ BigEndian(fn.b) % N = 0 /\ fn.res.secret # 0 /\ fn.res.random = N - 1


\* ------------------------------------------------------------- C27
\* C27: the verdict of checkZKP is that of the proof's T and R, the
\* generator, Y and the verifier's OtherUserID: whatever the field C of the
\* received proof holds, and whichever session with that OtherUserID
\* checks it, the verdict is the same.
C27_VerdictIgnoresC ==
    Checked =>
        /\ \A c \in Scalars \cup {NilScalar} :
               checkZKP(Verifier(fn.id), [fn.msgObj EXCEPT !.C = c], fn.generator, fn.y)
                   = fn.res.verdict
        /\ \A initiator \in BOOLEAN, userID \in UserIDs, x1, x2 \in NewRandomScalar(1) :
               LET s == InitThreePassJpakeWithConfigAndCurve(
                            initiator, userID, AllPasswords[1], NewConfig, x1, x2).jp
               IN  checkZKP([s EXCEPT !.OtherUserID = fn.id], fn.msgObj, fn.generator, fn.y)
                       = fn.res.verdict

\* A proof was accepted whose field C holds a value other than the
\* challenge recomputed for it.
C27_Witness ==
    /\ Checked /\ fn.res.verdict
    /\ fn.msgObj.C # NilScalar /\ fn.msgObj.C # CheckedChallenge


\* ------------------------------------------------------------- C28
\* The bytes of the parts one after another, with nothing between them.
Joined(parts) ==
    LET RECURSIVE upto(_)
        upto(k) == IF k = 0 THEN <<>> ELSE upto(k - 1) \o parts[k]
    IN  upto(Len(parts))

\* C28: concat is injective: a sequence of byte strings, of the same or of
\* another length, gives the output of the sequence handed in only if it
\* is that sequence; the output is the parts, each after its 8-byte length.
C28_ConcatInjective ==
    (fn.op = "concat" /\ fn.called) =>
        /\ \A other \in PartSeqs : concat(other) = fn.res.out => other = fn.parts
        /\ Len(fn.res.out) = 8 * Len(fn.parts) + Len(Joined(fn.parts))

\* Two parts were joined whose bytes, one after another, are those of other
\* sequences of parts as well: of one part and of three.
C28_Witness ==
    /\ fn.op = "concat" /\ fn.called /\ Len(fn.parts) = 2
    /\ \E one, three \in PartSeqs :
          /\ Len(one) = 1 /\ Len(three) = 3
          /\ Joined(one) = Joined(fn.parts) /\ Joined(three) = Joined(fn.parts)
          /\ concat(one) # fn.res.out /\ concat(three) # fn.res.out


\* ------------------------------------------------------------- C29
\* C29: with the same password at both sessions and no value altered, in
\* whatever order and however often the operations are called with the
\* values returned so far, the responder is at stage 8 only when the
\* initiator is at stage 7, the initiator is at stage 7 only when the
\* responder is at stage 6 or beyond, and two SessionKeys held are equal.
C29_ConfirmationOrder ==
    (SamePassword /\ altered = 0) =>
        /\ jp.B.Stage = 8 => jp.A.Stage = 7
        /\ jp.A.Stage = 7 => jp.B.Stage \in {6, 8}
        /\ (jp.A.SessionKey # <<>> /\ jp.B.SessionKey # <<>>) =>
               jp.A.SessionKey = jp.B.SessionKey

\* Both sessions are confirmed with equal keys, after calls made out of
\* turn and nothing altered.
C29_Witness ==
    /\ SamePassword /\ altered = 0 /\ honest = -1
    /\ jp.A.Stage = 7 /\ jp.B.Stage = 8
    /\ jp.A.SessionKey = jp.B.SessionKey /\ jp.A.SessionKey # <<>>


\* ------------------------------------------------------------- C30
\* C30: in every state of a run, after operations that returned an error
\* as well, a session holds a SessionKey exactly when its Stage is 5 or
\* more.
C30_SessionKeyFromStage5 ==
    \A p \in Party : (jp[p].SessionKey # <<>>) <=> (jp[p].Stage >= 5)

\* The initiator holds its key at stage 5; the responder, having refused a
\* Msg3, holds none at stage 4.
C30_Witness ==
    /\ jp.A.Stage = 5 /\ jp.A.SessionKey # <<>>
    /\ jp.B.Stage = 4 /\ jp.B.SessionKey = <<>> /\ "invalid" \in rejected.B


\* ------------------------------------------------------------- C31
\* C31: the session built as initiator is at stage 1, 3, 5 or 7 and the
\* one built as responder at stage 2, 4, 6 or 8, so that, whatever they
\* are handed, the initiator never succeeds in GetPass2Message,
\* ProcessPass3Message or ProcessSessionConfirmation2 and the responder
\* never in Pass1Message, GetPass3Message or ProcessSessionConfirmation1.
C31_StageParity ==
    /\ jp.A.Stage \in {1, 3, 5, 7}
    /\ jp.B.Stage \in {2, 4, 6, 8}
    /\ \A msg \in AnyMsg1 : GetPass2Message(jp.A, msg, OkDraws).err = ErrStage(2, jp.A.Stage)
    /\ \A msg \in AnyMsg3 : ProcessPass3Message(jp.A, msg).err = ErrStage(4, jp.A.Stage)
    /\ \A tag \in AnyTag : ProcessSessionConfirmation2(jp.A, tag).err = ErrStage(6, jp.A.Stage)
    /\ Pass1Message(jp.B, OkDraws).err = ErrStage(1, jp.B.Stage)
    /\ \A msg \in AnyMsg2 : GetPass3Message(jp.B, msg, OkDraws).err = ErrStage(3, jp.B.Stage)
    /\ \A tag \in AnyTag : ProcessSessionConfirmation1(jp.B, tag).err = ErrStage(5, jp.B.Stage)

\* Both sessions are through, the initiator at 7 and the responder at 8,
\* after a call on the wrong session was refused for its stage.
C31_Witness ==
    /\ jp.A.Stage = 7 /\ jp.B.Stage = 8 /\ honest = -1 /\ altered = 0
    /\ rejected = [p \in Party |-> {}]
    /\ \A tag \in wire.conf2 : ProcessSessionConfirmation2(jp.A, tag).err = ErrStage(6, 7)


\* ------------------------------------------------------------- C32
\* The peer values a session holds.
PeerValues(s) == <<s.OtherUserID, s.OtherX1G, s.OtherX2G>>

\* The peer values of t are the UserID and the two points of one Msg1 that
\* session s may be handed and whose two proofs verify under that UserID.
FromVerifiedMsg1(s, t) ==
    \E msg \in AnyMsg1 :
        LET s1 == [s EXCEPT !.OtherUserID = msg.UserID]
        IN  /\ PeerValues(t) = <<msg.UserID, msg.X1G, msg.X2G>>
            /\ checkZKP(s1, msg.X1ZKP, NewGeneratorPoint, msg.X1G)
            /\ checkZKP(s1, msg.X2ZKP, NewGeneratorPoint, msg.X2G)

\* The same for a Msg2 and its three proofs.
FromVerifiedMsg2(s, t) ==
    \E msg \in AnyMsg2 :
        LET s1 == [s EXCEPT !.OtherUserID = msg.UserID]
        IN  /\ PeerValues(t) = <<msg.UserID, msg.X3G, msg.X4G>>
            /\ checkZKP(s1, msg.X3ZKP, NewGeneratorPoint, msg.X3G)
            /\ checkZKP(s1, msg.X4ZKP, NewGeneratorPoint, msg.X4G)
            /\ checkZKP(s1, msg.XsZKP, Add(Add(s.x1G, s.x2G), msg.X3G), msg.B)

\* C32: a session comes to stage 4 or beyond holding the UserID and the
\* two points of the one message handed to that call, whose proofs all
\* verified under that UserID; neither point is the identity; and from
\* then on no call, successful or rejected, changes the three values.
C32_PeerValuesFromOneMessage ==
    [][\A p \in Party :
           /\ (jp[p].Stage < 4 /\ jp'[p].Stage >= 4) =>
                  /\ IF jp[p].Stage = 2 THEN FromVerifiedMsg1(jp[p], jp'[p])
                                        ELSE FromVerifiedMsg2(jp[p], jp'[p])
                  /\ jp'[p].OtherX1G \in Points \ {NewPoint}
                  /\ jp'[p].OtherX2G \in Points \ {NewPoint}
           /\ jp[p].Stage >= 4 => PeerValues(jp'[p]) = PeerValues(jp[p])]_vars

\* The responder, having refused a Msg1 before, is past ProcessPass3Message
\* with the values of the initiator's Msg1.
C32_Witness ==
    /\ jp.B.Stage = 6 /\ "invalid" \in rejected.B /\ jp.A.Stage = 5
    /\ \E m1 \in wire.msg1 : PeerValues(jp.B) = <<m1.UserID, m1.X1G, m1.X2G>>
    /\ ~Infinity(jp.B.OtherX1G) /\ ~Infinity(jp.B.OtherX2G)


\* ------------------------------------------------------------- C33
\* C33: after any sequence of successful and rejected operations a session
\* holds no OtherUserID or one other than its own userID, and no message,
\* whoever it names as sender, makes an operation leave the own userID
\* there.
C33_OtherUserIDNotOwn ==
    \A p \in Party :
        LET s == jp[p]
        IN  /\ s.OtherUserID = <<>> \/ s.OtherUserID # s.userID
            /\ \A msg \in FromAnyone(wire.msg1, JunkMsg1) :
                   GetPass2Message(s, msg, OkDraws).jp.OtherUserID # s.userID
            /\ \A msg \in FromAnyone(wire.msg2, JunkMsg2) :
                   GetPass3Message(s, msg, OkDraws).jp.OtherUserID # s.userID

\* The responder refused a Msg1 naming the responder itself as sender and
\* holds no OtherUserID.
C33_Witness ==
    /\ jp.B.Stage = 2 /\ "invalid" \in rejected.B /\ altered = 1
    /\ jp.B.OtherUserID = <<>>
    /\ \E msg \in wire.msg1 :
          GetPass2Message(jp.B, [msg EXCEPT !.UserID = jp.B.userID], OkDraws).err = ErrInvalid


\* ------------------------------------------------------------- C34
\* C34: a session never accepts the confirmation tag it produces itself:
\* the responder at stage 6 handed the tag it returned from
\* ProcessPass3Message is refused by ProcessSessionConfirmation2 and stays
\* at stage 6, the tag expected having the identifiers and the point pairs
\* the other way round; and so is the initiator at stage 5 by
\* ProcessSessionConfirmation1.
C34_OwnTagRefused ==
    \A p \in Party :
        LET s == jp[p]
        IN  s.SessionKey # <<>> =>
                /\ ConfirmTag(s) # ExpectedTag(s)
                /\ s.Stage = 6 =>
                       LET res == ProcessSessionConfirmation2(s, ConfirmTag(s))
                       IN  res.err = ErrConfirm /\ res.jp = s
                /\ s.Stage = 5 =>
                       LET res == ProcessSessionConfirmation1(s, ConfirmTag(s))
                       IN  res.err = ErrConfirm /\ res.jp = s /\ res.out = {}
                /\ ProcessSessionConfirmation1(s, ConfirmTag(s)).err # NoErr
                /\ ProcessSessionConfirmation2(s, ConfirmTag(s)).err # NoErr

\* The responder of an honest run is at stage 6, the tag it returned is on
\* the wire, and ProcessSessionConfirmation2 refuses that tag and leaves
\* the responder at stage 6.
C34_Witness ==
    /\ jp.B.Stage = 6 /\ honest = 4
    /\ wire.conf1 = {ConfirmTag(jp.B)}
    /\ LET res == ProcessSessionConfirmation2(jp.B, ConfirmTag(jp.B))
       IN  res.err = ErrConfirm /\ res.jp.Stage = 6


\* ------------------------------------------------------------- C35
\* The session s as the constructor would have built it from the password
\* other, with the same userID, configuration, X1 and X2: S and x2s are the
\* only values the password enters.
WithPassword(s, other) ==
    LET built == InitThreePassJpakeWithConfigAndCurve(
                     s.Stage = 1, s.userID, other, s.config, s.X1, s.X2).jp
    IN  [s EXCEPT !.S = built.S, !.x2s = built.x2s]

\* What GetPass2Message decided and stored.
Pass2Outcome(res) ==
    <<res.err, res.jp.Stage, res.jp.OtherUserID, res.jp.OtherX1G, res.jp.OtherX2G>>

\* C35: Msg1 and the outcome of GetPass2Message do not depend on a password:
\* a session and the session built from another password with the same
\* userID, X1 and X2 return, on the same draws, the same Msg1 with the same
\* error and stage from Pass1Message, and on the same message and draws the
\* same error and the same stored peer values from GetPass2Message.
C35_PasswordIndependent ==
    \A p \in Party : \A other \in Passwords :
        LET s == jp[p]
            t == WithPassword(s, other)
        IN  /\ \A v1, v2 \in Draws :
                   LET a == Pass1Message(s, <<v1, v2>>)
                       b == Pass1Message(t, <<v1, v2>>)
                   IN  a.out = b.out /\ a.err = b.err /\ a.jp.Stage = b.jp.Stage
            /\ \A msg \in Msg1Inputs(2) : \A v1, v2, v3 \in Draws :
                   Pass2Outcome(GetPass2Message(s, msg, <<v1, v2, v3>>))
                       = Pass2Outcome(GetPass2Message(t, msg, <<v1, v2, v3>>))

\* The responder is about to be handed Msg1, and built from the other
\* password, whose S is another one, it accepts it as well, storing the
\* same values, and returns another B.
C35_Witness ==
    /\ jp.B.Stage = 2 /\ jp.A.Stage = 3
    /\ \E msg \in wire.msg1 : \E other \in Passwords :
           LET t == WithPassword(jp.B, other)
               a == GetPass2Message(jp.B, msg, <<1, 1, 1>>)
               b == GetPass2Message(t, msg, <<1, 1, 1>>)
           IN  /\ t.S # jp.B.S
               /\ a.err = NoErr /\ b.err = NoErr
               /\ a.jp.Stage = 4 /\ Pass2Outcome(a) = Pass2Outcome(b)
               /\ a.out # b.out
               /\ Pass1Message(WithPassword(jp.A, other), <<1, 1>>).err = ErrStage(1, 3)


\* ------------------------------------------------------------- C36
\* The points of a first-pass message.
PointsOfMsg1(m) == {m.X1G, m.X2G, m.X1ZKP.T, m.X2ZKP.T}
\* The points of a second-pass and of a third-pass message.
PointsOfMsg2(m) == {m.X3G, m.X4G, m.B, m.X3ZKP.T, m.X4ZKP.T, m.XsZKP.T}
PointsOfMsg3(m) == {m.A, m.XsZKP.T}

\* What the operation of a session at its stage may return for any message
\* and any successful or failed draws.
ReturnedPoints(s) ==
    UNION ({PointsOfMsg1(m) :
               m \in UNION {Pass1Message(s, <<v1, v2>>).out : v1, v2 \in Draws}}
           \cup {PointsOfMsg2(m) :
               m \in UNION {GetPass2Message(s, msg, <<v1, v2, v3>>).out :
                               msg \in Msg1Inputs(2), v1, v2, v3 \in Draws}}
           \cup {PointsOfMsg3(m) :
               m \in UNION {GetPass3Message(s, msg, <<v1>>).out :
                               msg \in Msg2Inputs(3), v1 \in Draws}})

\* C36: every Msg1, Msg2 and Msg3 a session built by the constructor
\* returns carries no identity point: every message returned so far, and
\* every message an operation may return next on any input, has X1G, X2G,
\* X3G, X4G, B, A and the T of every proof different from the identity.
C36_NoIdentityPointReturned ==
    /\ \A m \in wire.msg1 : \A q \in PointsOfMsg1(m) : ~Infinity(q)
    /\ \A m \in wire.msg2 : \A q \in PointsOfMsg2(m) : ~Infinity(q)
    /\ \A m \in wire.msg3 : \A q \in PointsOfMsg3(m) : ~Infinity(q)
    /\ \A p \in Party : \A q \in ReturnedPoints(jp[p]) : ~Infinity(q)

\* All three messages were returned, none with an identity point, by
\* sessions whose X1, X2 and x2s are non-zero.
C36_Witness ==
    /\ wire.msg1 # {} /\ wire.msg2 # {} /\ wire.msg3 # {}
    /\ jp.A.Stage >= 5 /\ jp.B.Stage >= 4
    /\ \A p \in Party : ~Zero(jp[p].X1) /\ ~Zero(jp[p].X2) /\ ~Zero(jp[p].x2s)
    /\ \A m \in wire.msg3 : ~Infinity(m.A) /\ ~Infinity(m.XsZKP.T)

====
